---- MODULE Spec2Model ----
(***************************************************************************)
(* A model of the gadjid library: the PDAG store and its two constructors, *)
(* the edge-list adaptor, the sorted-list primitives, the walk-status      *)
(* reachability engines and the distances (SHD, Parent-, Ancestor- and     *)
(* Oset-AID) built on them.                                                *)
(*                                                                         *)
(* Rust vectors are TLA+ sequences (index k of the vector is k+1 here);    *)
(* hash sets are sets; a hash map from node to vector is a function on    *)
(* 0 .. n-1 whose default is the empty sequence.  A panic is an outcome    *)
(* of kind "Panic"; a returned Err is an outcome of kind "Err".            *)
(***************************************************************************)
EXTENDS Integers, Sequences, FiniteSets, TLC

VARIABLES
    pc,              \* which phase of which scenario the run is in
    layout,          \* Edgelist layout tag: "RowMajor" or "ColumnMajor"
    size,            \* Edgelist.size, the declared matrix size
    fed,             \* the non-zero triples the inner iterator has produced so far
    previous_index,  \* Edgelist.previous_index (None or <<outer, inner>>)
    acc,             \* the constructor's accumulators while it consumes the list
    outcome,         \* what the constructor came to: running, Ok(pdag), Err, Panic
    truth,           \* the true graph of a distance call
    guess,           \* the guessed graph of a distance call
    dist,            \* what the distance call returned
    graph,           \* the graph of a reachability call
    treat,           \* its treatment slice t
    adjust,          \* its adjustment set Z
    sets,            \* what the reachability engines returned
    list1,           \* first input of a sorted-list primitive
    list2,           \* second input of a sorted-list primitive
    listOut          \* what the primitive returned

vars == <<pc, layout, size, fed, previous_index, acc, outcome,
          truth, guess, dist, graph, treat, adjust, sets, list1, list2, listOut>>

loadVars == <<layout, size, fed, previous_index, acc, outcome>>
distVars == <<truth, guess, dist>>
reachVars == <<graph, treat, adjust, sets>>
listVars == <<list1, list2, listOut>>

-----------------------------------------------------------------------------
(* Bounds of the model *)

\* largest declared matrix size / node count
MaxNodes == 3
\* largest number of non-zero triples in an edge list
MaxLen == 6
\* entries are drawn from 0 .. MaxValue; every value above 2 is a bad value
MaxValue == 3
\* longest input of a sorted-list primitive
MaxListLen == 3
\* threads of the pool that run the per-treatment closures
NumThreads == 2

None == << >>
Some(x) == <<x>>

Nodes(n) == 0 .. (n - 1)

\* the elements of a vector
Elems(s) == {s[k] : k \in 1 .. Len(s)}

\* slice.sort_unstable(): the ascending arrangement of the same elements
RECURSIVE SortUnstable(_)
SortUnstable(vec) ==
    IF vec = << >> THEN << >>
    ELSE LET m == CHOOSE k \in 1 .. Len(vec) : \A l \in 1 .. Len(vec) : vec[k] <= vec[l]
             rest == [k \in 1 .. (Len(vec) - 1) |-> IF k < m THEN vec[k] ELSE vec[k + 1]]
         IN  <<vec[m]>> \o SortUnstable(rest)

\* Vec::dedup(): drops every element equal to the one before it
RECURSIVE Dedup(_)
Dedup(vec) ==
    IF Len(vec) <= 1 THEN vec
    ELSE LET front == Dedup(SubSeq(vec, 1, Len(vec) - 1))
         IN  IF vec[Len(vec)] = vec[Len(vec) - 1] THEN front
             ELSE Append(front, vec[Len(vec)])

\* the ascending vector of a set of nodes (iteration 0 .. n filtered by membership)
RECURSIVE SetToAscending(_)
SetToAscending(S) ==
    IF S = {} THEN << >>
    ELSE LET m == CHOOSE x \in S : \A y \in S : x <= y
         IN  <<m>> \o SetToAscending(S \ {m})

-----------------------------------------------------------------------------
(* ascending_list_utils.rs *)

\* ascending_lists_first_shared_element, the two-pointer scan from (i, j)
RECURSIVE FirstSharedFrom(_, _, _, _)
FirstSharedFrom(a, b, i, j) ==
    IF Len(a) = i \/ Len(b) = j THEN None
    ELSE IF a[i + 1] = b[j + 1] THEN Some(a[i + 1])
    ELSE IF a[i + 1] < b[j + 1] THEN FirstSharedFrom(a, b, i + 1, j)
    ELSE FirstSharedFrom(a, b, i, j + 1)

ascending_lists_first_shared_element(a, b) == FirstSharedFrom(a, b, 0, 0)

\* the push guarded by "not the same as the last one we added"
PushIfNew(diff, to_add) ==
    IF diff # << >> /\ diff[Len(diff)] = to_add THEN diff ELSE Append(diff, to_add)

\* the two tail loops: the rest of the list that is not yet exhausted
RECURSIVE DrainInto(_, _)
DrainInto(diff, rest) ==
    IF rest = << >> THEN diff
    ELSE DrainInto(PushIfNew(diff, Head(rest)), Tail(rest))

\* ascending_lists_set_symmetric_difference: the main loop, then the tails
RECURSIVE SymDiffLoop(_, _, _)
SymDiffLoop(v1, v2, diff) ==
    IF v1 = << >> THEN DrainInto(diff, v2)
    ELSE IF v2 = << >> THEN DrainInto(diff, v1)
    ELSE IF Head(v1) = Head(v2) THEN SymDiffLoop(Tail(v1), Tail(v2), diff)
    ELSE IF Head(v1) < Head(v2) THEN SymDiffLoop(Tail(v1), v2, PushIfNew(diff, Head(v1)))
    ELSE SymDiffLoop(v1, Tail(v2), PushIfNew(diff, Head(v2)))

ascending_lists_set_symmetric_difference(v1, v2) == SymDiffLoop(v1, v2, << >>)

\* ascending_lists_set_union: the main loop, then the tails
RECURSIVE UnionLoop(_, _, _)
UnionLoop(v1, v2, union) ==
    IF v1 = << >> THEN DrainInto(union, v2)
    ELSE IF v2 = << >> THEN DrainInto(union, v1)
    ELSE IF Head(v1) = Head(v2) THEN UnionLoop(Tail(v1), Tail(v2), PushIfNew(union, Head(v1)))
    ELSE IF Head(v1) < Head(v2) THEN UnionLoop(Tail(v1), v2, PushIfNew(union, Head(v1)))
    ELSE UnionLoop(v1, Tail(v2), PushIfNew(union, Head(v2)))

ascending_lists_set_union(v1, v2) == UnionLoop(v1, v2, << >>)

-----------------------------------------------------------------------------
(* partially_directed_acyclic_graph.rs: the PDAG store and its queries *)

\* the neighbourhood slice of a node: neighbourhoods[start..end]
NeighbourhoodOf(g, node) ==
    SubSeq(g.neighbourhoods, g.node_edge_ranges[node + 1] + 1, g.node_edge_ranges[node + 2])

InDegree(g, node) == g.node_in_out_degree[node + 1][1]
OutDegree(g, node) == g.node_in_out_degree[node + 1][2]

\* &nb[..parent_end]
parents_of(g, node) ==
    LET nb == NeighbourhoodOf(g, node)
    IN  SubSeq(nb, 1, InDegree(g, node))

\* &nb[child_start..]
children_of(g, node) ==
    LET nb == NeighbourhoodOf(g, node)
        child_start == Len(nb) - OutDegree(g, node)
    IN  SubSeq(nb, child_start + 1, Len(nb))

\* &nb[parents_end..children_start]
adjacent_undirected_of(g, node) ==
    LET nb == NeighbourhoodOf(g, node)
        parents_end == InDegree(g, node)
        children_start == Len(nb) - OutDegree(g, node)
    IN  SubSeq(nb, parents_end + 1, children_start)

\* &nb[..children_start]
possible_parents_of(g, node) ==
    LET nb == NeighbourhoodOf(g, node)
        children_start == Len(nb) - OutDegree(g, node)
    IN  SubSeq(nb, 1, children_start)

\* &nb[parents_end..]
possible_children_of(g, node) ==
    LET nb == NeighbourhoodOf(g, node)
        parents_end == InDegree(g, node)
    IN  SubSeq(nb, parents_end + 1, Len(nb))

-----------------------------------------------------------------------------
(* has_cycle: Kahn's algorithm on the directed edges *)

\* the roots, pushed for u in 0 .. n_nodes
RECURSIVE KahnRoots(_, _)
KahnRoots(in_degree, u) ==
    IF u = 0 THEN << >>
    ELSE IF in_degree[u] = 0 THEN Append(KahnRoots(in_degree, u - 1), u - 1)
    ELSE KahnRoots(in_degree, u - 1)

\* the inner loop over the children of the popped node
RECURSIVE KahnChildren(_, _)
KahnChildren(st, children) ==
    IF children = << >> THEN st
    ELSE LET v == Head(children)
             deg == st.in_degree[v + 1] - 1
             lowered == [st EXCEPT !.in_degree[v + 1] = deg]
         IN  KahnChildren(
                 IF deg = 0
                 THEN [lowered EXCEPT !.stack = Append(@, v), !.visited = @ + 1]
                 ELSE lowered,
                 Tail(children))

\* while let Some(current) = stack.pop()
RECURSIVE KahnLoop(_, _)
KahnLoop(g, st) ==
    IF st.stack = << >> THEN st
    ELSE LET current == st.stack[Len(st.stack)]
             popped == [st EXCEPT !.stack = SubSeq(@, 1, Len(@) - 1)]
         IN  KahnLoop(g, KahnChildren(popped, children_of(g, current)))

has_cycle(g) ==
    LET in_degree == [k \in 1 .. g.n_nodes |-> g.node_in_out_degree[k][1]]
        stack == KahnRoots(in_degree, g.n_nodes)
    IN  IF stack = << >> THEN TRUE
        ELSE KahnLoop(g, [in_degree |-> in_degree, stack |-> stack,
                          visited |-> Len(stack)]).visited < g.n_nodes

-----------------------------------------------------------------------------
(* edgelist.rs: the adaptor between the inner iterator and the constructor *)

Running == [kind |-> "Running"]
Panic(why) == [kind |-> "Panic", why |-> why]
Err(e) == [kind |-> "Err", err |-> e]
Ok(g) == [kind |-> "Ok", pdag |-> g]

\* an order check that compares the outer indices only
OrderCheckOuterOnly(prev_index, next_index) ==
    IF prev_index = None THEN TRUE
    ELSE ~(next_index[1] < prev_index[1][1])

\* Edgelist::order_check: TRUE when the check passes, FALSE when it panics
order_check(prev_index, next_index) ==
    IF prev_index = None THEN TRUE
    ELSE LET prev_outer == prev_index[1][1]
             prev_inner == prev_index[1][2]
             next_outer == next_index[1]
             next_inner == next_index[2]
         IN  ~(next_outer < prev_outer
               \/ (next_outer = prev_outer /\ next_inner <= prev_inner))

-----------------------------------------------------------------------------
(* PDAG::try_from_row_major and PDAG::try_from_col_major *)

\* the accumulators before the first triple; `mapped` is the hash map keyed by
\* the inner index (incomings when row-major, outgoings_ when column-major),
\* `flat` the vector in encounter order (outgoings, respectively incomings_)
NewAcc(matrix_size) ==
    [mapped |-> [k \in Nodes(matrix_size) |-> << >>],
     flat |-> << >>,
     undirected |-> [k \in Nodes(matrix_size) |-> << >>],
     node_io_degree |-> [k \in 1 .. matrix_size |-> <<0, 0>>]]

\* match val { 1 => .. } of try_from_row_major
RowMajorDirected(a, outer_idx, inner_idx) ==
    [a EXCEPT !.mapped[inner_idx] = Append(@, outer_idx),
              !.flat = Append(@, inner_idx),
              !.node_io_degree = [k \in DOMAIN @ |->
                  <<@[k][1] + (IF k = inner_idx + 1 THEN 1 ELSE 0),
                    @[k][2] + (IF k = outer_idx + 1 THEN 1 ELSE 0)>>]]

\* match val { 1 => .. } of try_from_col_major
ColMajorDirected(a, outer_idx, inner_idx) ==
    [a EXCEPT !.mapped[inner_idx] = Append(@, outer_idx),
              !.flat = Append(@, inner_idx),
              !.node_io_degree = [k \in DOMAIN @ |->
                  <<@[k][1] + (IF k = outer_idx + 1 THEN 1 ELSE 0),
                    @[k][2] + (IF k = inner_idx + 1 THEN 1 ELSE 0)>>]]

\* an undirected mark recorded at its outer index only
PushUndirectedAtOuterOnly(a, outer_idx, inner_idx) ==
    [a EXCEPT !.undirected[outer_idx] = Append(@, inner_idx)]

\* match val { 2 => .. }, the same in both constructors
PushUndirected(a, outer_idx, inner_idx) ==
    [a EXCEPT !.undirected =
        [k \in DOMAIN @ |->
            LET first == IF k = inner_idx THEN Append(@[k], outer_idx) ELSE @[k]
            IN  IF k = outer_idx THEN Append(first, inner_idx) ELSE first]]

\* the loop body without its self-loop check
LoopBodyNoSelfLoopCheck(lay, a, outer_idx, inner_idx, val) ==
    IF val = 1 THEN
        [kind |-> "Running",
         acc |-> IF lay = "RowMajor" THEN RowMajorDirected(a, outer_idx, inner_idx)
                 ELSE ColMajorDirected(a, outer_idx, inner_idx)]
    ELSE IF val = 2 THEN
        [kind |-> "Running", acc |-> PushUndirected(a, outer_idx, inner_idx)]
    ELSE Panic("BadValue")

\* the body of "for (outer_idx, inner_idx, val) in edgelist": the new
\* accumulators, or the panic
LoopBody(lay, a, outer_idx, inner_idx, val) ==
    IF outer_idx = inner_idx THEN Panic("SelfLoop")
    ELSE IF val = 1 THEN
        [kind |-> "Running",
         acc |-> IF lay = "RowMajor" THEN RowMajorDirected(a, outer_idx, inner_idx)
                 ELSE ColMajorDirected(a, outer_idx, inner_idx)]
    ELSE IF val = 2 THEN
        [kind |-> "Running", acc |-> PushUndirected(a, outer_idx, inner_idx)]
    ELSE Panic("BadValue")

\* the undirected neighbours sorted but not deduplicated
SortedOnly(vec) == SortUnstable(vec)

\* the undirected neighbours deduplicated but not sorted
DedupedOnly(vec) == Dedup(vec)

\* vec.sort_unstable(); vec.dedup();
SortedDeduped(vec) == Dedup(SortUnstable(vec))

\* the neighbourhood nb of node i, with n_in and n_undirected; `taken` is how
\* far the iterator over the flat vector has advanced
NeighbourhoodRow(a, i, taken) ==
    LET ins == a.mapped[i]
        und == SortedDeduped(a.undirected[i])
        outs == SubSeq(a.flat, taken + 1, taken + a.node_io_degree[i + 1][2])
    IN  [nb |-> ins \o und \o outs, n_in |-> Len(ins), n_undirected |-> Len(und),
         taken |-> taken + a.node_io_degree[i + 1][2]]

NeighbourhoodCol(a, i, taken) ==
    LET ins == SubSeq(a.flat, taken + 1, taken + a.node_io_degree[i + 1][1])
        und == SortedDeduped(a.undirected[i])
        outs == a.mapped[i]
    IN  [nb |-> ins \o und \o outs, n_in |-> Len(ins), n_undirected |-> Len(und),
         taken |-> taken + a.node_io_degree[i + 1][1]]

\* the three first-shared-element checks; TRUE when one of them panics
NotSimple(nb, n_in, n_undirected) ==
    LET incomings == SubSeq(nb, 1, n_in)
        undirected == SubSeq(nb, n_in + 1, n_in + n_undirected)
        outgoings == SubSeq(nb, n_in + n_undirected + 1, Len(nb))
    IN  /\ nb # << >>
        /\ \/ ascending_lists_first_shared_element(incomings, undirected) # None
           \/ ascending_lists_first_shared_element(outgoings, undirected) # None
           \/ ascending_lists_first_shared_element(incomings, outgoings) # None

\* "for i in 0..matrix_size": builds the neighbourhoods from node i on
RECURSIVE BuildFrom(_, _, _, _, _)
BuildFrom(lay, a, matrix_size, i, st) ==
    IF i = matrix_size THEN st
    ELSE LET h == IF lay = "RowMajor" THEN NeighbourhoodRow(a, i, st.taken)
                  ELSE NeighbourhoodCol(a, i, st.taken)
         IN  IF NotSimple(h.nb, h.n_in, h.n_undirected) THEN [st EXCEPT !.panicked = TRUE]
             ELSE BuildFrom(lay, a, matrix_size, i + 1,
                    [panicked |-> FALSE,
                     taken |-> h.taken,
                     n_edges |-> st.n_edges + Len(h.nb),
                     n_directed_edges |-> st.n_directed_edges + (Len(h.nb) - h.n_undirected),
                     n_undirected_edges |-> st.n_undirected_edges + h.n_undirected,
                     node_edge_ranges |-> [st.node_edge_ranges EXCEPT ![i + 2] = st.n_edges + Len(h.nb)],
                     neighbourhoods |-> st.neighbourhoods \o h.nb])

\* pdag.pdag_type from the number of undirected edges
Classify(n_undirected_edges) == IF n_undirected_edges = 0 THEN "DAG" ELSE "CPDAG"

\* everything after the loop over the edge list: build, check, classify
Finish(lay, a, matrix_size) ==
    LET PdagOf(built) ==
            [node_edge_ranges |-> built.node_edge_ranges,
             node_in_out_degree |-> a.node_io_degree,
             neighbourhoods |-> built.neighbourhoods,
             n_nodes |-> matrix_size,
             n_directed_edges |-> built.n_directed_edges \div 2,
             n_undirected_edges |-> built.n_undirected_edges \div 2,
             pdag_type |-> "DAG"]
        Checked(pdag) ==
            IF has_cycle(pdag) THEN Err("NotAcyclic")
            ELSE Ok([pdag EXCEPT !.pdag_type = Classify(pdag.n_undirected_edges)])
        Built(built) ==
            IF built.panicked THEN Panic("NotSimple") ELSE Checked(PdagOf(built))
    IN  Built(BuildFrom(lay, a, matrix_size, 0,
                    [panicked |-> FALSE, taken |-> 0, n_edges |-> 0,
                     n_directed_edges |-> 0, n_undirected_edges |-> 0,
                     node_edge_ranges |-> [k \in 1 .. matrix_size + 1 |-> 0],
                     neighbourhoods |-> << >>]))

\* Edgelist::next on one item of the inner iterator followed by the loop body
\* on what it yields; s is [kind, acc, previous_index]
Consume(lay, s, item) ==
    IF s.kind # "Running" THEN s
    ELSE IF item[3] = 0 THEN s
    ELSE IF ~order_check(s.previous_index, <<item[1], item[2]>>)
         THEN [kind |-> "Panic", why |-> "OutOfOrder"]
    ELSE LET r == LoopBody(lay, s.acc, item[1], item[2], item[3])
         IN  IF r.kind = "Running"
             THEN [kind |-> "Running", acc |-> r.acc,
                   previous_index |-> Some(<<item[1], item[2]>>)]
             ELSE r

RECURSIVE ConsumeAll(_, _, _)
ConsumeAll(lay, s, stream) ==
    IF stream = << >> THEN s
    ELSE ConsumeAll(lay, Consume(lay, s, Head(stream)), Tail(stream))

\* a constructor on a whole triple stream
TryFrom(lay, matrix_size, stream) ==
    LET s == ConsumeAll(lay, [kind |-> "Running", acc |-> NewAcc(matrix_size),
                              previous_index |-> None], stream)
    IN  IF s.kind = "Running" THEN Finish(lay, s.acc, matrix_size) ELSE s

try_from_row_major(matrix_size, stream) == TryFrom("RowMajor", matrix_size, stream)

\* a column-major constructor that reads a directed triple as outer -> inner
ColMajorReadAsRowMajor(matrix_size, stream) == TryFrom("RowMajor", matrix_size, stream)

try_from_col_major(matrix_size, stream) == TryFrom("ColumnMajor", matrix_size, stream)

\* Edgelist::from_vecvec: the dense matrix flattened row by row; cell (r, c) of
\* a matrix of size n is the (r * n + c)-th item
from_vecvec(n, dense) ==
    [k \in 1 .. n * n |-> <<(k - 1) \div n, (k - 1) % n, dense[(k - 1) \div n][(k - 1) % n]>>]

\* PDAG::from_row_to_col_vecvec and from_col_to_row_vecvec: the constructor
\* unwrapped (an Err becomes a panic), the type set again from the edge count
Unwrapped(r) ==
    IF r.kind = "Err" THEN Panic("unwrap")
    ELSE IF r.kind = "Ok"
         THEN Ok([r.pdag EXCEPT !.pdag_type = Classify(r.pdag.n_undirected_edges)])
    ELSE r

from_row_to_col_vecvec(n, dense) == Unwrapped(try_from_row_major(n, from_vecvec(n, dense)))
from_col_to_row_vecvec(n, dense) == Unwrapped(try_from_col_major(n, from_vecvec(n, dense)))

\* a vec![vec![..], ..] literal, rows and columns indexed from 0
VecVec(rows) ==
    [r \in Nodes(Len(rows)) |-> [c \in Nodes(Len(rows)) |-> rows[r + 1][c + 1]]]

Transpose(n, dense) == [r \in Nodes(n) |-> [c \in Nodes(n) |-> dense[c][r]]]


-----------------------------------------------------------------------------
(* reachability.rs: the walk-status reachability engines.  A treatment     *)
(* slice t is a sequence, hash sets are sets, the to-visit stack is a      *)
(* sequence whose last element is popped.                                  *)

\* Vec::from_iter(t.iter().map(|v| (Edge::Init, *v, WalkStatus::Init)))
InitialStack(t) == [k \in 1 .. Len(t) |-> <<"Init", t[k], "Init">>]

\* the steps that are Some pushed on the stack, visited or not
PushVisitedToo(stack, visited, nexts) ==
    LET kept == SelectSeq(nexts, LAMBDA nx : nx # None)
    IN  stack \o [k \in 1 .. Len(kept) |-> kept[k][1]]

\* the steps (Option triples, in order) that are Some and not yet visited,
\* pushed on the stack
PushUnvisited(stack, visited, nexts) ==
    LET kept == SelectSeq(nexts, LAMBDA nx : nx # None /\ nx[1] \notin visited)
    IN  stack \o [k \in 1 .. Len(kept) |-> kept[k][1]]

\* the sequence with the elements of t filtered out
WithoutTreatments(vec, t) == SelectSeq(vec, LAMBDA u : u \notin Elems(t))

\* get_next_steps without the filter on treatment nodes
NextStepsIntoTreatments(g, t, v) ==
    LET und == adjacent_undirected_of(g, v)
        chi == children_of(g, v)
    IN  [k \in 1 .. Len(und) |-> <<"Undirected", und[k]>>]
            \o [k \in 1 .. Len(chi) |-> <<"Incoming", chi[k]>>]

get_next_steps(g, t, v) ==
    LET und == WithoutTreatments(adjacent_undirected_of(g, v), t)
        chi == WithoutTreatments(children_of(g, v), t)
    IN  [k \in 1 .. Len(und) |-> <<"Undirected", und[k]>>]
            \o [k \in 1 .. Len(chi) |-> <<"Incoming", chi[k]>>]

\* the transition of get_d_pd_nam where an undirected edge after directed ones
\* makes the walk not amenable
DPdNamTransitionLateUndirectedNotAmenable(walkstatus, move_on_by, w) ==
    IF walkstatus = "Init" THEN
        IF move_on_by = "Incoming" THEN Some(<<move_on_by, w, "D">>)
        ELSE IF move_on_by = "Undirected" THEN Some(<<move_on_by, w, "PD_NAM">>)
        ELSE None
    ELSE IF walkstatus \in {"PD_AM", "PD_NAM"} THEN
        IF move_on_by \in {"Incoming", "Undirected"} THEN Some(<<move_on_by, w, walkstatus>>)
        ELSE None
    ELSE
        IF move_on_by = "Incoming" THEN Some(<<move_on_by, w, "D">>)
        ELSE IF move_on_by = "Undirected" THEN Some(<<move_on_by, w, "PD_NAM">>)
        ELSE None

\* the transition "match walkstatus" of get_d_pd_nam
DPdNamTransition(walkstatus, move_on_by, w) ==
    IF walkstatus = "Init" THEN
        IF move_on_by = "Incoming" THEN Some(<<move_on_by, w, "D">>)
        ELSE IF move_on_by = "Undirected" THEN Some(<<move_on_by, w, "PD_NAM">>)
        ELSE None
    ELSE IF walkstatus \in {"PD_AM", "PD_NAM"} THEN
        IF move_on_by \in {"Incoming", "Undirected"} THEN Some(<<move_on_by, w, walkstatus>>)
        ELSE None
    ELSE \* D
        IF move_on_by = "Incoming" THEN Some(<<move_on_by, w, "D">>)
        ELSE IF move_on_by = "Undirected" THEN Some(<<move_on_by, w, "PD_AM">>)
        ELSE None

DPdNamStart(t) ==
    [to_visit_stack |-> InitialStack(t), visited |-> {},
     desc |-> Elems(t), poss_desc |-> Elems(t), not_amenable |-> {}]

\* one iteration of the while loop of get_d_pd_nam
DPdNamStep(g, t, st) ==
    LET top == st.to_visit_stack[Len(st.to_visit_stack)]
        node == top[2]
        walkstatus == top[3]
        visited == st.visited \cup {top}
        steps == get_next_steps(g, t, node)
        nexts == [k \in 1 .. Len(steps) |->
                     DPdNamTransition(walkstatus, steps[k][1], steps[k][2])]
    IN  [to_visit_stack |-> PushUnvisited(SubSeq(st.to_visit_stack, 1, Len(st.to_visit_stack) - 1),
                                          visited, nexts),
         visited |-> visited,
         desc |-> IF walkstatus = "D" THEN st.desc \cup {node} ELSE st.desc,
         poss_desc |-> IF walkstatus \in {"PD_NAM", "PD_AM", "D"}
                       THEN st.poss_desc \cup {node} ELSE st.poss_desc,
         not_amenable |-> IF walkstatus = "PD_NAM"
                          THEN st.not_amenable \cup {node} ELSE st.not_amenable]

RECURSIVE DPdNamRun(_, _, _)
DPdNamRun(g, t, st) ==
    IF st.to_visit_stack = << >> THEN st ELSE DPdNamRun(g, t, DPdNamStep(g, t, st))

\* returns (desc, poss_desc, not_amenable)
get_d_pd_nam(g, t) ==
    LET end == DPdNamRun(g, t, DPdNamStart(t))
    IN  <<end.desc, end.poss_desc, end.not_amenable>>

\* the transition "match walkstatus" of get_pd_nam
PdNamTransition(walkstatus, move_on_by, w) ==
    IF walkstatus = "Init" THEN
        IF move_on_by = "Incoming" THEN Some(<<move_on_by, w, "PD_AM">>)
        ELSE IF move_on_by = "Undirected" THEN Some(<<move_on_by, w, "PD_NAM">>)
        ELSE None
    ELSE
        IF move_on_by \in {"Incoming", "Undirected"} THEN Some(<<move_on_by, w, walkstatus>>)
        ELSE None

PdNamStart(t) ==
    [to_visit_stack |-> InitialStack(t), visited |-> {},
     poss_de |-> Elems(t), not_amenable |-> {}]

\* one iteration of the while loop of get_pd_nam
PdNamStep(g, t, st) ==
    LET top == st.to_visit_stack[Len(st.to_visit_stack)]
        node == top[2]
        walkstatus == top[3]
        visited == st.visited \cup {top}
        steps == get_next_steps(g, t, node)
        nexts == [k \in 1 .. Len(steps) |->
                     PdNamTransition(walkstatus, steps[k][1], steps[k][2])]
    IN  [to_visit_stack |-> PushUnvisited(SubSeq(st.to_visit_stack, 1, Len(st.to_visit_stack) - 1),
                                          visited, nexts),
         visited |-> visited,
         poss_de |-> IF walkstatus \in {"PD_NAM", "PD_AM"}
                     THEN st.poss_de \cup {node} ELSE st.poss_de,
         not_amenable |-> IF walkstatus = "PD_NAM"
                          THEN st.not_amenable \cup {node} ELSE st.not_amenable]

RECURSIVE PdNamRun(_, _, _)
PdNamRun(g, t, st) ==
    IF st.to_visit_stack = << >> THEN st ELSE PdNamRun(g, t, PdNamStep(g, t, st))

\* returns (poss_de, not_amenable)
get_pd_nam(g, t) ==
    LET end == PdNamRun(g, t, PdNamStart(t))
    IN  <<end.poss_de, end.not_amenable>>

NamStart(t) ==
    [to_visit_stack |-> [k \in 1 .. Len(t) |-> <<"Init", t[k]>>],
     visited |-> {}, not_amenable |-> {}]

\* get_nam where the walks leave the treatment by a directed edge as well
NamStepInitByAnyEdge(g, t, st) ==
    LET top == st.to_visit_stack[Len(st.to_visit_stack)]
        arrived_by == top[1]
        node == top[2]
        rest == SubSeq(st.to_visit_stack, 1, Len(st.to_visit_stack) - 1)
        visited == st.visited \cup {node}
        steps == SelectSeq(get_next_steps(g, t, node), LAMBDA mw : mw[2] \notin visited)
    IN  IF arrived_by = "Init"
        THEN [to_visit_stack |-> rest \o steps,
              visited |-> visited,
              not_amenable |-> st.not_amenable]
        ELSE [to_visit_stack |-> rest \o steps,
              visited |-> visited,
              not_amenable |-> st.not_amenable \cup {node}]

\* one iteration of the while loop of get_nam; its visited set holds nodes
NamStep(g, t, st) ==
    LET top == st.to_visit_stack[Len(st.to_visit_stack)]
        arrived_by == top[1]
        node == top[2]
        rest == SubSeq(st.to_visit_stack, 1, Len(st.to_visit_stack) - 1)
        visited == st.visited \cup {node}
        und == SelectSeq(adjacent_undirected_of(g, node),
                         LAMBDA q : q \notin visited /\ q \notin Elems(t))
        steps == SelectSeq(get_next_steps(g, t, node), LAMBDA mw : mw[2] \notin visited)
    IN  IF arrived_by = "Init"
        THEN [to_visit_stack |-> rest \o [k \in 1 .. Len(und) |-> <<"Undirected", und[k]>>],
              visited |-> visited,
              not_amenable |-> st.not_amenable]
        ELSE [to_visit_stack |-> rest \o steps,
              visited |-> visited,
              not_amenable |-> st.not_amenable \cup {node}]

RECURSIVE NamRun(_, _, _)
NamRun(g, t, st) ==
    IF st.to_visit_stack = << >> THEN st ELSE NamRun(g, t, NamStep(g, t, st))

get_nam(g, t) == NamRun(g, t, NamStart(t)).not_amenable

\* get_next_steps_conditioned without the negation at a collider: arriving by
\* an incoming edge the parents get node_is_adjustment, like every other step
NextStepsCollidersOpen(g, t, arrived_by, v, node_is_adjustment) ==
    LET par == WithoutTreatments(parents_of(g, v), t)
        und == WithoutTreatments(adjacent_undirected_of(g, v), t)
        chi == WithoutTreatments(children_of(g, v), t)
        upward ==
            IF arrived_by \in {"Init", "Outgoing", "Incoming"}
            THEN [k \in 1 .. Len(par) |-> <<"Outgoing", par[k], node_is_adjustment>>]
            ELSE << >>
    IN  upward
            \o [k \in 1 .. Len(und) |-> <<"Undirected", und[k], node_is_adjustment>>]
            \o [k \in 1 .. Len(chi) |-> <<"Incoming", chi[k], node_is_adjustment>>]

\* get_next_steps_conditioned that moves on to the parents after an undirected
\* edge as well
NextStepsUpwardAfterUndirected(g, t, arrived_by, v, node_is_adjustment) ==
    LET par == WithoutTreatments(parents_of(g, v), t)
        und == WithoutTreatments(adjacent_undirected_of(g, v), t)
        chi == WithoutTreatments(children_of(g, v), t)
        upward ==
            IF arrived_by = "Incoming"
            THEN [k \in 1 .. Len(par) |-> <<"Outgoing", par[k], ~node_is_adjustment>>]
            ELSE [k \in 1 .. Len(par) |-> <<"Outgoing", par[k], node_is_adjustment>>]
    IN  upward
            \o [k \in 1 .. Len(und) |-> <<"Undirected", und[k], node_is_adjustment>>]
            \o [k \in 1 .. Len(chi) |-> <<"Incoming", chi[k], node_is_adjustment>>]

get_next_steps_conditioned(g, t, arrived_by, v, node_is_adjustment) ==
    LET par == WithoutTreatments(parents_of(g, v), t)
        und == WithoutTreatments(adjacent_undirected_of(g, v), t)
        chi == WithoutTreatments(children_of(g, v), t)
        upward ==
            IF arrived_by = "Incoming"
            THEN [k \in 1 .. Len(par) |-> <<"Outgoing", par[k], ~node_is_adjustment>>]
            ELSE IF arrived_by \in {"Init", "Outgoing"}
            THEN [k \in 1 .. Len(par) |-> <<"Outgoing", par[k], node_is_adjustment>>]
            ELSE << >>
    IN  upward
            \o [k \in 1 .. Len(und) |-> <<"Undirected", und[k], node_is_adjustment>>]
            \o [k \in 1 .. Len(chi) |-> <<"Incoming", chi[k], node_is_adjustment>>]

\* the transition "match walkstatus" shared by get_pd_nam_nva and get_nam_nva
NamNvaTransition(walkstatus, move_on_by, w, blocked) ==
    IF walkstatus = "Init" THEN
        IF move_on_by = "Incoming" THEN Some(<<move_on_by, w, "PD_OPEN_AM">>)
        ELSE IF move_on_by = "Outgoing" THEN Some(<<move_on_by, w, "NON_CAUSAL_OPEN">>)
        ELSE IF move_on_by = "Undirected" THEN Some(<<move_on_by, w, "PD_OPEN_NAM">>)
        ELSE None
    ELSE IF walkstatus \in {"PD_OPEN_AM", "PD_BLOCKED_AM"} THEN
        IF move_on_by \in {"Incoming", "Undirected"} THEN
            IF blocked THEN Some(<<move_on_by, w, "PD_BLOCKED_AM">>)
            ELSE Some(<<move_on_by, w, walkstatus>>)
        ELSE IF move_on_by = "Outgoing" /\ ~blocked /\ walkstatus = "PD_OPEN_AM"
            THEN Some(<<move_on_by, w, "NON_CAUSAL_OPEN">>)
        ELSE None
    ELSE IF walkstatus \in {"PD_OPEN_NAM", "PD_BLOCKED_NAM"} THEN
        IF move_on_by \in {"Incoming", "Undirected"} THEN
            IF blocked THEN Some(<<move_on_by, w, "PD_BLOCKED_NAM">>)
            ELSE Some(<<move_on_by, w, walkstatus>>)
        ELSE IF move_on_by = "Outgoing" /\ ~blocked /\ walkstatus = "PD_OPEN_NAM"
            THEN Some(<<move_on_by, w, "NON_CAUSAL_OPEN">>)
        ELSE None
    ELSE IF walkstatus = "NON_CAUSAL_OPEN" /\ ~blocked
        THEN Some(<<move_on_by, w, "NON_CAUSAL_OPEN">>)
    ELSE None

\* the stack after the for loop over get_next_steps_conditioned
ConditionedPushes(g, t, z, rest, visited, top) ==
    LET steps == get_next_steps_conditioned(g, t, top[1], top[2], top[2] \in z)
        nexts == [k \in 1 .. Len(steps) |->
                     NamNvaTransition(top[3], steps[k][1], steps[k][2], steps[k][3])]
    IN  PushUnvisited(rest, visited, nexts)

PdNamNvaStart(t, z) ==
    [to_visit_stack |-> InitialStack(t), visited |-> {},
     poss_de |-> Elems(t), not_amenable |-> {}, not_vas |-> z]

\* get_pd_nam_nva without "if we insert a node into not_amenable, we also
\* insert it into not_vas"
PdNamNvaStepNamNotInNva(g, t, z, st) ==
    LET top == st.to_visit_stack[Len(st.to_visit_stack)]
        node == top[2]
        walkstatus == top[3]
        visited == st.visited \cup {top}
        rest == SubSeq(st.to_visit_stack, 1, Len(st.to_visit_stack) - 1)
    IN  [to_visit_stack |-> ConditionedPushes(g, t, z, rest, visited, top),
         visited |-> visited,
         poss_de |-> IF walkstatus \in {"PD_OPEN_NAM", "PD_BLOCKED_NAM",
                                        "PD_BLOCKED_AM", "PD_OPEN_AM"}
                     THEN st.poss_de \cup {node} ELSE st.poss_de,
         not_amenable |-> IF walkstatus \in {"PD_OPEN_NAM", "PD_BLOCKED_NAM"}
                          THEN st.not_amenable \cup {node} ELSE st.not_amenable,
         not_vas |-> IF walkstatus \in {"NON_CAUSAL_OPEN", "PD_BLOCKED_AM"}
                     THEN st.not_vas \cup {node} ELSE st.not_vas]

\* one iteration of the while loop of get_pd_nam_nva
PdNamNvaStep(g, t, z, st) ==
    LET top == st.to_visit_stack[Len(st.to_visit_stack)]
        node == top[2]
        walkstatus == top[3]
        visited == st.visited \cup {top}
        rest == SubSeq(st.to_visit_stack, 1, Len(st.to_visit_stack) - 1)
    IN  [to_visit_stack |-> ConditionedPushes(g, t, z, rest, visited, top),
         visited |-> visited,
         poss_de |-> IF walkstatus \in {"PD_OPEN_NAM", "PD_BLOCKED_NAM",
                                        "PD_BLOCKED_AM", "PD_OPEN_AM"}
                     THEN st.poss_de \cup {node} ELSE st.poss_de,
         not_amenable |-> IF walkstatus \in {"PD_OPEN_NAM", "PD_BLOCKED_NAM"}
                          THEN st.not_amenable \cup {node} ELSE st.not_amenable,
         not_vas |-> IF walkstatus \in {"PD_OPEN_NAM", "PD_BLOCKED_NAM",
                                        "NON_CAUSAL_OPEN", "PD_BLOCKED_AM"}
                     THEN st.not_vas \cup {node} ELSE st.not_vas]

RECURSIVE PdNamNvaRun(_, _, _, _)
PdNamNvaRun(g, t, z, st) ==
    IF st.to_visit_stack = << >> THEN st ELSE PdNamNvaRun(g, t, z, PdNamNvaStep(g, t, z, st))

\* returns (poss_de, not_amenable, not_vas)
get_pd_nam_nva(g, t, z) ==
    LET end == PdNamNvaRun(g, t, z, PdNamNvaStart(t, z))
    IN  <<end.poss_de, end.not_amenable, end.not_vas>>

\* get_nam_nva with not_vas starting empty
NamNvaStartNvaEmpty(t, z) ==
    [to_visit_stack |-> InitialStack(t), visited |-> {},
     not_amenable |-> {}, not_vas |-> {}]

NamNvaStart(t, z) ==
    [to_visit_stack |-> InitialStack(t), visited |-> {},
     not_amenable |-> {}, not_vas |-> z]

\* get_nam_nva where an open non-causal walk does not mark its end node
NamNvaStepNonCausalNotMarked(g, t, z, st) ==
    LET top == st.to_visit_stack[Len(st.to_visit_stack)]
        node == top[2]
        walkstatus == top[3]
        visited == st.visited \cup {top}
        rest == SubSeq(st.to_visit_stack, 1, Len(st.to_visit_stack) - 1)
    IN  [to_visit_stack |-> ConditionedPushes(g, t, z, rest, visited, top),
         visited |-> visited,
         not_amenable |-> IF walkstatus \in {"PD_OPEN_NAM", "PD_BLOCKED_NAM"}
                          THEN st.not_amenable \cup {node} ELSE st.not_amenable,
         not_vas |-> IF walkstatus \in {"PD_OPEN_NAM", "PD_BLOCKED_NAM", "PD_BLOCKED_AM"}
                     THEN st.not_vas \cup {node} ELSE st.not_vas]

\* one iteration of the while loop of get_nam_nva
NamNvaStep(g, t, z, st) ==
    LET top == st.to_visit_stack[Len(st.to_visit_stack)]
        node == top[2]
        walkstatus == top[3]
        visited == st.visited \cup {top}
        rest == SubSeq(st.to_visit_stack, 1, Len(st.to_visit_stack) - 1)
    IN  [to_visit_stack |-> ConditionedPushes(g, t, z, rest, visited, top),
         visited |-> visited,
         not_amenable |-> IF walkstatus \in {"PD_OPEN_NAM", "PD_BLOCKED_NAM"}
                          THEN st.not_amenable \cup {node} ELSE st.not_amenable,
         not_vas |-> IF walkstatus \in {"PD_OPEN_NAM", "PD_BLOCKED_NAM",
                                        "NON_CAUSAL_OPEN", "PD_BLOCKED_AM"}
                     THEN st.not_vas \cup {node} ELSE st.not_vas]

RECURSIVE NamNvaRun(_, _, _, _)
NamNvaRun(g, t, z, st) ==
    IF st.to_visit_stack = << >> THEN st ELSE NamNvaRun(g, t, z, NamNvaStep(g, t, z, st))

\* returns (not_amenable, not_vas)
get_nam_nva(g, t, z) ==
    LET end == NamNvaRun(g, t, z, NamNvaStart(t, z))
    IN  <<end.not_amenable, end.not_vas>>

\* the transition "match walkstatus" of get_invalidly_un_blocked
IvbTransition(walkstatus, move_on_by, w, blocked) ==
    IF walkstatus = "Init" THEN
        IF move_on_by \in {"Incoming", "Undirected"} THEN Some(<<move_on_by, w, "PD_OPEN">>)
        ELSE IF move_on_by = "Outgoing" THEN Some(<<move_on_by, w, "NON_CAUSAL_OPEN">>)
        ELSE None
    ELSE IF walkstatus \in {"PD_OPEN", "PD_BLOCKED"} THEN
        IF move_on_by \in {"Incoming", "Undirected"} THEN
            IF blocked THEN Some(<<move_on_by, w, "PD_BLOCKED">>)
            ELSE Some(<<move_on_by, w, walkstatus>>)
        ELSE IF move_on_by = "Outgoing" /\ ~blocked /\ walkstatus = "PD_OPEN"
            THEN Some(<<move_on_by, w, "NON_CAUSAL_OPEN">>)
        ELSE None
    ELSE IF walkstatus = "NON_CAUSAL_OPEN" /\ ~blocked
        THEN Some(<<move_on_by, w, "NON_CAUSAL_OPEN">>)
    ELSE None

\* y_of_interest.cloned(), z.clone() and the initial stack; returned is set by
\* the early "return ivb"
IvbStart(t, z, y_of_interest) ==
    [to_visit_stack |-> InitialStack(t), visited |-> {},
     ivb |-> z, y_of_interest |-> y_of_interest, returned |-> FALSE]

\* get_invalidly_un_blocked returning as soon as one target of interest is
\* determined
IvbStepStopAtFirstTarget(g, t, z, st) ==
    LET top == st.to_visit_stack[Len(st.to_visit_stack)]
        node == top[2]
        walkstatus == top[3]
        visited == st.visited \cup {top}
        rest == SubSeq(st.to_visit_stack, 1, Len(st.to_visit_stack) - 1)
        steps == get_next_steps_conditioned(g, t, top[1], node, node \in z)
        nexts == [k \in 1 .. Len(steps) |->
                     IvbTransition(walkstatus, steps[k][1], steps[k][2], steps[k][3])]
        marks == walkstatus \in {"PD_BLOCKED", "NON_CAUSAL_OPEN"}
        removed == marks /\ st.y_of_interest # None /\ node \in st.y_of_interest[1]
        still == IF removed THEN Some(st.y_of_interest[1] \ {node}) ELSE st.y_of_interest
        ivb == IF marks /\ (st.y_of_interest = None \/ removed)
               THEN st.ivb \cup {node} ELSE st.ivb
    IN  IF removed
        THEN [st EXCEPT !.visited = visited, !.to_visit_stack = rest,
                        !.ivb = ivb, !.y_of_interest = still, !.returned = TRUE]
        ELSE [to_visit_stack |-> PushUnvisited(rest, visited, nexts),
              visited |-> visited, ivb |-> ivb, y_of_interest |-> still,
              returned |-> FALSE]

\* get_invalidly_un_blocked where a blocked possibly directed walk does not
\* mark its end node
IvbStepBlockedNotMarked(g, t, z, st) ==
    LET top == st.to_visit_stack[Len(st.to_visit_stack)]
        node == top[2]
        walkstatus == top[3]
        visited == st.visited \cup {top}
        rest == SubSeq(st.to_visit_stack, 1, Len(st.to_visit_stack) - 1)
        steps == get_next_steps_conditioned(g, t, top[1], node, node \in z)
        nexts == [k \in 1 .. Len(steps) |->
                     IvbTransition(walkstatus, steps[k][1], steps[k][2], steps[k][3])]
        marks == walkstatus = "NON_CAUSAL_OPEN"
        removed == marks /\ st.y_of_interest # None /\ node \in st.y_of_interest[1]
        still == IF removed THEN Some(st.y_of_interest[1] \ {node}) ELSE st.y_of_interest
        ivb == IF marks /\ (st.y_of_interest = None \/ removed)
               THEN st.ivb \cup {node} ELSE st.ivb
    IN  IF removed /\ still[1] = {}
        THEN [st EXCEPT !.visited = visited, !.to_visit_stack = rest,
                        !.ivb = ivb, !.y_of_interest = still, !.returned = TRUE]
        ELSE [to_visit_stack |-> PushUnvisited(rest, visited, nexts),
              visited |-> visited, ivb |-> ivb, y_of_interest |-> still,
              returned |-> FALSE]

\* one iteration of the while loop of get_invalidly_un_blocked
IvbStep(g, t, z, st) ==
    LET top == st.to_visit_stack[Len(st.to_visit_stack)]
        node == top[2]
        walkstatus == top[3]
        visited == st.visited \cup {top}
        rest == SubSeq(st.to_visit_stack, 1, Len(st.to_visit_stack) - 1)
        steps == get_next_steps_conditioned(g, t, top[1], node, node \in z)
        nexts == [k \in 1 .. Len(steps) |->
                     IvbTransition(walkstatus, steps[k][1], steps[k][2], steps[k][3])]
        marks == walkstatus \in {"PD_BLOCKED", "NON_CAUSAL_OPEN"}
        \* still_to_be_determined_y.remove(&node)
        removed == marks /\ st.y_of_interest # None /\ node \in st.y_of_interest[1]
        still == IF removed THEN Some(st.y_of_interest[1] \ {node}) ELSE st.y_of_interest
        ivb == IF marks /\ (st.y_of_interest = None \/ removed)
               THEN st.ivb \cup {node} ELSE st.ivb
    IN  IF removed /\ still[1] = {}
        THEN [st EXCEPT !.visited = visited, !.to_visit_stack = rest,
                        !.ivb = ivb, !.y_of_interest = still, !.returned = TRUE]
        ELSE [to_visit_stack |-> PushUnvisited(rest, visited, nexts),
              visited |-> visited, ivb |-> ivb, y_of_interest |-> still,
              returned |-> FALSE]

RECURSIVE IvbRun(_, _, _, _)
IvbRun(g, t, z, st) ==
    IF st.returned \/ st.to_visit_stack = << >> THEN st
    ELSE IvbRun(g, t, z, IvbStep(g, t, z, st))

\* returns ivb; y_of_interest is None or Some(set of nodes)
get_invalidly_un_blocked(g, t, z, y_of_interest) ==
    IvbRun(g, t, z, IvbStart(t, z, y_of_interest)).ivb

-----------------------------------------------------------------------------
(* gensearch.rs, the rule tables and possible_descendants.rs *)

AncestorsRuletable == [table |-> "Ancestors", treatments |-> {}]
Descendants == [table |-> "Descendants", treatments |-> {}]
Parents == [table |-> "Parents", treatments |-> {}]
ProperAncestors(treatments) == [table |-> "ProperAncestors", treatments |-> treatments]

\* RuleTable::lookup of the four tables: <<continue_to_next, yield_next>>
lookup(ruletable, current_edge, current_node, next_edge, next_node) ==
    CASE ruletable.table = "Ancestors" ->
            IF next_edge = "Outgoing" THEN <<TRUE, TRUE>> ELSE <<FALSE, FALSE>>
      [] ruletable.table = "Descendants" ->
            IF next_edge = "Incoming" THEN <<TRUE, TRUE>> ELSE <<FALSE, FALSE>>
      [] ruletable.table = "Parents" ->
            IF current_edge = "Init" /\ next_edge = "Outgoing"
            THEN <<FALSE, TRUE>> ELSE <<FALSE, FALSE>>
      [] ruletable.table = "ProperAncestors" ->
            IF next_edge = "Outgoing"
            THEN <<next_node \notin ruletable.treatments, next_node \notin ruletable.treatments>>
            ELSE <<FALSE, FALSE>>

\* the loop over the starting vertices
GensearchStart(starting_vertices, yield_starting_vertices) ==
    [to_visit_stack |-> [k \in 1 .. Len(starting_vertices) |-> <<"Init", starting_vertices[k]>>],
     result |-> IF yield_starting_vertices THEN Elems(starting_vertices) ELSE {},
     visited_in |-> {}, visited_out |-> {}]

\* one iteration of the while loop of gensearch
GensearchStep(dag, ruletable, st) ==
    LET top == st.to_visit_stack[Len(st.to_visit_stack)]
        current_edge == top[1]
        current_node == top[2]
        rest == SubSeq(st.to_visit_stack, 1, Len(st.to_visit_stack) - 1)
        visited_in == IF current_edge = "Incoming" THEN st.visited_in \cup {current_node}
                      ELSE st.visited_in
        visited_out == IF current_edge = "Outgoing" THEN st.visited_out \cup {current_node}
                       ELSE st.visited_out
        chi == children_of(dag, current_node)
        par == parents_of(dag, current_node)
        cand == [k \in 1 .. Len(chi) |-> <<"Incoming", chi[k]>>]
                    \o [k \in 1 .. Len(par) |-> <<"Outgoing", par[k]>>]
        rule(c) == lookup(ruletable, current_edge, current_node, c[1], c[2])
        pushed == SelectSeq(cand, LAMBDA c :
                      /\ rule(c)[1]
                      /\ \/ c[1] = "Incoming" /\ c[2] \notin visited_in
                         \/ c[1] = "Outgoing" /\ c[2] \notin visited_out)
    IN  [to_visit_stack |-> rest \o pushed,
         result |-> st.result \cup {cand[k][2] : k \in {l \in 1 .. Len(cand) : rule(cand[l])[2]}},
         visited_in |-> visited_in,
         visited_out |-> visited_out]

RECURSIVE GensearchRun(_, _, _)
GensearchRun(dag, ruletable, st) ==
    IF st.to_visit_stack = << >> THEN st
    ELSE GensearchRun(dag, ruletable, GensearchStep(dag, ruletable, st))

gensearch(dag, ruletable, starting_vertices, yield_starting_vertices) ==
    GensearchRun(dag, ruletable,
                 GensearchStart(starting_vertices, yield_starting_vertices)).result

descendants(dag, starting_vertices) == gensearch(dag, Descendants, starting_vertices, TRUE)

parents(dag, starting_vertices) == gensearch(dag, Parents, starting_vertices, FALSE)

proper_ancestors(dag, treatments, responses) ==
    gensearch(dag, ProperAncestors(Elems(treatments)), responses, TRUE)

\* one iteration of the while loop of possible_descendants
PossibleDescendantsStep(pdag, st) ==
    LET current_node == st.to_visit_stack[Len(st.to_visit_stack)]
        rest == SubSeq(st.to_visit_stack, 1, Len(st.to_visit_stack) - 1)
        visited == st.visited \cup {current_node}
        fresh == SelectSeq(possible_children_of(pdag, current_node),
                           LAMBDA q : q \notin visited)
    IN  [to_visit_stack |-> rest \o fresh,
         result |-> st.result \cup Elems(fresh),
         visited |-> visited]

RECURSIVE PossibleDescendantsRun(_, _)
PossibleDescendantsRun(pdag, st) ==
    IF st.to_visit_stack = << >> THEN st
    ELSE PossibleDescendantsRun(pdag, PossibleDescendantsStep(pdag, st))

possible_descendants(pdag, starting_vertices) ==
    PossibleDescendantsRun(pdag, [to_visit_stack |-> starting_vertices,
                                  result |-> Elems(starting_vertices),
                                  visited |-> {}]).result

\* optimal_adjustment_set without the difference with t_descendants
OsetKeepsDescendants(dag, treatments, responses, t_descendants) ==
    LET response_and_anc_hash == proper_ancestors(dag, treatments, responses)
        causal_nodes == response_and_anc_hash \cap t_descendants
    IN  parents(dag, SetToAscending(causal_nodes))

\* oset_aid.rs; the hash-set intersection is handed to parents() in some
\* order, which the union of the parents does not depend on
optimal_adjustment_set(dag, treatments, responses, t_descendants) ==
    LET response_and_anc_hash == proper_ancestors(dag, treatments, responses)
        causal_nodes == response_and_anc_hash \cap t_descendants
        causal_nodes_parents == parents(dag, SetToAscending(causal_nodes))
    IN  causal_nodes_parents \ t_descendants

-----------------------------------------------------------------------------
(* The distances: shd.rs, parent_aid.rs, ancestor_aid.rs, oset_aid.rs.     *)
(* A distance returns (fraction, count); the fraction                      *)
(* "count as f64 / comparisons as f64" is kept as the quotient in lowest   *)
(* terms, which two such divisions of small integers agree on exactly when *)
(* the floats are equal.                                                   *)

RECURSIVE Gcd(_, _)
Gcd(a, b) == IF b = 0 THEN a ELSE Gcd(b, a % b)

\* num as f64 / den as f64, for den > 0
Ratio(num, den) == [num |-> num \div Gcd(num, den), den |-> den \div Gcd(num, den)]

\* a call that returns value to its caller, as opposed to Panic(why)
Returns(value) == [kind |-> "Returns", value |-> value]

\* the literal 0f64
ZeroF64 == [num |-> 0, den |-> 1]

RECURSIVE SumOver(_, _)
SumOver(f, n) == IF n = 0 THEN 0 ELSE SumOver(f, n - 1) + f[n - 1]

\* the neighbours of a node without the filter e < node
NotOnlyBelow(vec, node) == vec

\* iter().copied().filter(|e| e < &node)
Below(vec, node) == SelectSeq(vec, LAMBDA e : e < node)

\* the closure of shd with the sizes of the three symmetric differences added
ShdAtNodeKindsSummed(g_truth, g_guess, node) ==
    Len(ascending_lists_set_symmetric_difference(
            Below(children_of(g_truth, node), node),
            Below(children_of(g_guess, node), node)))
    + Len(ascending_lists_set_symmetric_difference(
            Below(parents_of(g_truth, node), node),
            Below(parents_of(g_guess, node), node)))
    + Len(ascending_lists_set_symmetric_difference(
            Below(adjacent_undirected_of(g_truth, node), node),
            Below(adjacent_undirected_of(g_guess, node), node)))

\* the closure of shd mapped over the nodes
ShdAtNode(g_truth, g_guess, node) ==
    LET children_symdif == ascending_lists_set_symmetric_difference(
                                Below(children_of(g_truth, node), node),
                                Below(children_of(g_guess, node), node))
        parents_symdif == ascending_lists_set_symmetric_difference(
                                Below(parents_of(g_truth, node), node),
                                Below(parents_of(g_guess, node), node))
        undirected_symdif == ascending_lists_set_symmetric_difference(
                                Below(adjacent_undirected_of(g_truth, node), node),
                                Below(adjacent_undirected_of(g_guess, node), node))
        distinct_children_and_parents ==
            ascending_lists_set_union(children_symdif, parents_symdif)
        union == ascending_lists_set_union(distinct_children_and_parents, undirected_symdif)
    IN  Len(union)

shd(g_truth, g_guess) ==
    IF g_truth.n_nodes # g_guess.n_nodes THEN Panic("graph size mismatch")
    ELSE IF g_truth.n_nodes = 1 THEN Returns(<<ZeroF64, 0>>)
    ELSE LET dist_ == SumOver([node \in Nodes(g_truth.n_nodes) |->
                                  ShdAtNode(g_truth, g_guess, node)], g_truth.n_nodes)
             comparisons == (g_truth.n_nodes * (g_truth.n_nodes - 1)) \div 2
         IN  Returns(<<Ratio(dist_, comparisons), dist_>>)

\* amenability in the guess ignored whatever the kind of the guess
NamInGuessIgnored(g_guess, treatment) == {}

\* get_nam(guess, &[treatment]) when the guess is a CPDAG, else the empty set
NamInGuess(g_guess, treatment) ==
    IF g_guess.pdag_type = "CPDAG" THEN get_nam(g_guess, <<treatment>>) ELSE {}

\* parent_aid without the mistake counted when guess and truth disagree on
\* amenability
ParentAidMistakesAmenabilityNotCompared(g_truth, g_guess, treatment) ==
    LET nam_in_guess == NamInGuess(g_guess, treatment)
        adjustment_set == Elems(parents_of(g_guess, treatment))
        claim_possible_effect == Nodes(g_truth.n_nodes) \ adjustment_set
        reached == get_pd_nam_nva(g_truth, <<treatment>>, adjustment_set)
        t_poss_desc_in_truth == reached[1]
        nam_in_true == reached[2]
        nva_in_true == reached[3]
        mistake(y) ==
            IF y \notin claim_possible_effect THEN y \in t_poss_desc_in_truth
            ELSE y \notin nam_in_guess /\ y \in nva_in_true
    IN  Cardinality({y \in Nodes(g_truth.n_nodes) \ {treatment} : mistake(y)})

\* parent_aid without the mistake counted for a node the guess does not claim
\* as possible effect but that is a possible descendant in the truth
ParentAidMistakesNonEffectsUnchecked(g_truth, g_guess, treatment) ==
    LET nam_in_guess == NamInGuess(g_guess, treatment)
        adjustment_set == Elems(parents_of(g_guess, treatment))
        claim_possible_effect == Nodes(g_truth.n_nodes) \ adjustment_set
        reached == get_pd_nam_nva(g_truth, <<treatment>>, adjustment_set)
        t_poss_desc_in_truth == reached[1]
        nam_in_true == reached[2]
        nva_in_true == reached[3]
        mistake(y) ==
            IF y \notin claim_possible_effect THEN FALSE
            ELSE IF (y \in nam_in_guess) # (y \in nam_in_true) THEN TRUE
            ELSE y \notin nam_in_guess /\ y \in nva_in_true
    IN  Cardinality({y \in Nodes(g_truth.n_nodes) \ {treatment} : mistake(y)})

\* the closure of parent_aid mapped over the treatments
ParentAidMistakes(g_truth, g_guess, treatment) ==
    LET nam_in_guess == NamInGuess(g_guess, treatment)
        adjustment_set == Elems(parents_of(g_guess, treatment))
        claim_possible_effect == Nodes(g_truth.n_nodes) \ adjustment_set
        reached == get_pd_nam_nva(g_truth, <<treatment>>, adjustment_set)
        t_poss_desc_in_truth == reached[1]
        nam_in_true == reached[2]
        nva_in_true == reached[3]
        mistake(y) ==
            IF y \notin claim_possible_effect THEN y \in t_poss_desc_in_truth
            ELSE IF (y \in nam_in_guess) # (y \in nam_in_true) THEN TRUE
            ELSE y \notin nam_in_guess /\ y \in nva_in_true
    IN  Cardinality({y \in Nodes(g_truth.n_nodes) \ {treatment} : mistake(y)})

\* the closure of ancestor_aid without the check of the adjustment set in truth
AncestorAidMistakesNvaUnchecked(g_truth, g_guess, treatment) ==
    LET nam_in_guess == NamInGuess(g_guess, treatment)
        claim_possible_effect == possible_descendants(g_guess, <<treatment>>)
        nam_in_true == get_nam(g_truth, <<treatment>>)
        t_poss_desc_in_truth == possible_descendants(g_truth, <<treatment>>)
        mistake(y) ==
            IF y \notin claim_possible_effect THEN y \in t_poss_desc_in_truth
            ELSE y \in nam_in_guess /\ y \notin nam_in_true
    IN  Cardinality({y \in Nodes(g_truth.n_nodes) \ {treatment} : mistake(y)})

\* the closure of ancestor_aid mapped over the treatments
AncestorAidMistakes(g_truth, g_guess, treatment) ==
    LET nam_in_guess == NamInGuess(g_guess, treatment)
        ancestor_adjustment == gensearch(g_guess, AncestorsRuletable, <<treatment>>, FALSE)
        claim_possible_effect == possible_descendants(g_guess, <<treatment>>)
        reached == get_nam_nva(g_truth, <<treatment>>, ancestor_adjustment)
        nam_in_true == reached[1]
        nvas_in_true == reached[2]
        t_poss_desc_in_truth == possible_descendants(g_truth, <<treatment>>)
        mistake(y) ==
            IF y \notin claim_possible_effect THEN y \in t_poss_desc_in_truth
            ELSE IF y \in nam_in_guess THEN y \notin nam_in_true
            ELSE y \in nvas_in_true
    IN  Cardinality({y \in Nodes(g_truth.n_nodes) \ {treatment} : mistake(y)})

\* the closure of oset_aid mapped over the treatments
OsetAidMistakes(g_truth, g_guess, treatment) ==
    LET claim_possible_effect_in_guess == possible_descendants(g_guess, <<treatment>>)
        t_poss_desc_in_truth == possible_descendants(g_truth, <<treatment>>)
        t_desc_in_guess == descendants(g_guess, <<treatment>>)
        nam_in_guess == NamInGuess(g_guess, treatment)
        mistake(y) ==
            IF y \notin claim_possible_effect_in_guess THEN y \in t_poss_desc_in_truth
            ELSE LET o_set_adjustment == optimal_adjustment_set(g_guess, <<treatment>>,
                                                                <<y>>, t_desc_in_guess)
                     reached == get_nam_nva(g_truth, <<treatment>>, o_set_adjustment)
                 IN  IF y \in nam_in_guess THEN y \notin reached[1]
                     ELSE y \in reached[2]
    IN  Cardinality({y \in Nodes(g_guess.n_nodes) \ {treatment} : mistake(y)})

\* the three AIDs short-circuiting below two nodes as shd does
AidOfShortCircuits(g_truth, g_guess, mistakes) ==
    IF g_guess.n_nodes # g_truth.n_nodes
    THEN Panic("both graphs must contain the same number of nodes")
    ELSE IF g_guess.n_nodes < 2 THEN Returns(<<ZeroF64, 0>>)
    ELSE LET n == g_guess.n_nodes
             verifier_mistakes_found == SumOver(mistakes, n)
             comparisons == n * n - n
         IN  Returns(<<Ratio(verifier_mistakes_found, comparisons), verifier_mistakes_found>>)

\* the asserts and the normalisation the three AIDs share
AidOf(g_truth, g_guess, mistakes) ==
    IF g_guess.n_nodes # g_truth.n_nodes
    THEN Panic("both graphs must contain the same number of nodes")
    ELSE IF g_guess.n_nodes < 2 THEN Panic("graph must contain at least 2 nodes")
    ELSE LET n == g_guess.n_nodes
             verifier_mistakes_found == SumOver(mistakes, n)
             comparisons == n * n - n
         IN  Returns(<<Ratio(verifier_mistakes_found, comparisons), verifier_mistakes_found>>)

parent_aid(g_truth, g_guess) ==
    AidOf(g_truth, g_guess,
          [treatment \in Nodes(g_guess.n_nodes) |->
              ParentAidMistakes(g_truth, g_guess, treatment)])

ancestor_aid(g_truth, g_guess) ==
    AidOf(g_truth, g_guess,
          [treatment \in Nodes(g_guess.n_nodes) |->
              AncestorAidMistakes(g_truth, g_guess, treatment)])

oset_aid(g_truth, g_guess) ==
    AidOf(g_truth, g_guess,
          [treatment \in Nodes(g_guess.n_nodes) |->
              OsetAidMistakes(g_truth, g_guess, treatment)])

(* sid.rs: the structural intervention distance, a Result around parent_aid *)

\* sid with the guess examined before the truth
SidGuessCheckedFirst(g_truth, g_guess) ==
    IF g_guess.pdag_type # "DAG" THEN Err("GuessNotDAG")
    ELSE IF g_truth.pdag_type # "DAG" THEN Err("TruthNotDAG")
    ELSE IF g_truth.n_nodes # g_guess.n_nodes THEN Err("NotSameSize")
    ELSE LET Wrapped(r) == IF r.kind = "Panic" THEN r ELSE [kind |-> "Ok", value |-> r.value]
         IN  Wrapped(parent_aid(g_truth, g_guess))

\* Ok(parent_aid(truth, guess)): a panic inside parent_aid unwinds through sid
sid(g_truth, g_guess) ==
    IF g_truth.pdag_type # "DAG" THEN Err("TruthNotDAG")
    ELSE IF g_guess.pdag_type # "DAG" THEN Err("GuessNotDAG")
    ELSE IF g_truth.n_nodes # g_guess.n_nodes THEN Err("NotSameSize")
    ELSE LET Wrapped(r) == IF r.kind = "Panic" THEN r ELSE [kind |-> "Ok", value |-> r.value]
         IN  Wrapped(parent_aid(g_truth, g_guess))

-----------------------------------------------------------------------------
(* The constructors run triple by triple.  The inner iterator hands triples *)
(* (outer, inner, val) with indices inside the declared size to the        *)
(* Edgelist adaptor; an index outside it is an out-of-bounds slice access  *)
(* and is not part of the model.                                           *)

Layouts == {"RowMajor", "ColumnMajor"}

Idle == << >>

InitLoad ==
    /\ pc = "load"
    /\ layout \in Layouts
    /\ size \in 0 .. MaxNodes
    /\ fed = << >>
    /\ previous_index = None
    /\ acc = NewAcc(size)
    /\ outcome = Running
    /\ truth = Idle /\ guess = Idle /\ dist = Idle
    /\ graph = Idle /\ treat = << >> /\ adjust = {} /\ sets = Idle
    /\ list1 = << >> /\ list2 = << >> /\ listOut = Idle

\* Edgelist::next meets a zero entry of the inner iterator and skips it
SkipZero ==
    /\ pc = "load"
    /\ outcome = Running
    /\ \E outer_idx \in Nodes(size), inner_idx \in Nodes(size) :
          Consume(layout, [kind |-> "Running", acc |-> acc,
                           previous_index |-> previous_index],
                  <<outer_idx, inner_idx, 0>>).previous_index = previous_index
    /\ UNCHANGED vars

\* Edgelist::next yields a non-zero entry and the constructor's loop body runs on it
LoopIteration ==
    /\ pc = "load"
    /\ outcome = Running
    /\ Len(fed) < MaxLen
    /\ \E outer_idx \in Nodes(size), inner_idx \in Nodes(size), val \in 1 .. MaxValue :
          LET item == <<outer_idx, inner_idx, val>>
              s == Consume(layout, [kind |-> "Running", acc |-> acc,
                                    previous_index |-> previous_index], item)
          IN  /\ fed' = Append(fed, item)
              /\ IF s.kind = "Running"
                 THEN /\ acc' = s.acc
                      /\ previous_index' = s.previous_index
                      /\ outcome' = Running
                 ELSE /\ outcome' = s
                      /\ UNCHANGED <<acc, previous_index>>
    /\ UNCHANGED <<pc, layout, size, distVars, reachVars, listVars>>

\* the inner iterator is exhausted: the constructor builds the store, checks
\* simplicity and acyclicity and returns
EndOfList ==
    /\ pc = "load"
    /\ outcome = Running
    /\ outcome' = Finish(layout, acc, size)
    /\ UNCHANGED <<pc, layout, size, fed, previous_index, acc, distVars, reachVars, listVars>>

NextLoad == SkipZero \/ LoopIteration \/ EndOfList

SpecLoad == InitLoad /\ [][NextLoad]_vars

-----------------------------------------------------------------------------
(* What an input is, read off the triples alone *)

Finished == outcome.kind \in {"Ok", "Err", "Panic"}

\* the positions of a stream come strictly later and later in the declared order
Ordered(stream) ==
    \A k \in 1 .. Len(stream), l \in 1 .. Len(stream) :
        k < l => \/ stream[k][1] < stream[l][1]
                 \/ (stream[k][1] = stream[l][1] /\ stream[k][2] < stream[l][2])

BadValueIn(stream) == \E k \in 1 .. Len(stream) : stream[k][3] \notin {0, 1, 2}

SelfLoopIn(stream) ==
    \E k \in 1 .. Len(stream) : stream[k][3] # 0 /\ stream[k][1] = stream[k][2]

\* the directed edges <<from, to>> an input codes: outer -> inner when
\* row-major, inner -> outer when column-major
DirectedIn(lay, stream) ==
    {IF lay = "RowMajor" THEN <<stream[k][1], stream[k][2]>>
                         ELSE <<stream[k][2], stream[k][1]>> :
        k \in {l \in 1 .. Len(stream) : stream[l][3] = 1}}

\* the undirected edges {a, b} an input codes
UndirectedIn(stream) ==
    {{stream[k][1], stream[k][2]} : k \in {l \in 1 .. Len(stream) : stream[l][3] = 2}}

\* some unordered pair carries both directions, or a directed and an undirected mark
ConflictIn(lay, stream) ==
    \E e \in DirectedIn(lay, stream) :
        \/ <<e[2], e[1]>> \in DirectedIn(lay, stream) /\ e[1] # e[2]
        \/ {e[1], e[2]} \in UndirectedIn(stream)

\* the pairs joined by a directed path of at most k edges of E
RECURSIVE PathsUpTo(_, _)
PathsUpTo(E, k) ==
    IF k <= 1 THEN E
    ELSE LET P == PathsUpTo(E, k - 1)
         IN  P \cup {<<pe[1][1], pe[2][2]>> : pe \in {qf \in P \X E : qf[1][2] = qf[2][1]}}

DirectedCycleIn(lay, n, stream) ==
    \E p \in PathsUpTo(DirectedIn(lay, stream), n) : p[1] = p[2]

ValuesAndPairsFine(lay, stream) ==
    /\ ~BadValueIn(stream)
    /\ ~SelfLoopIn(stream)
    /\ ~ConflictIn(lay, stream)

ValidInput(lay, n, stream) ==
    /\ ValuesAndPairsFine(lay, stream)
    /\ ~DirectedCycleIn(lay, n, stream)

\* C6 as stated: for every declared size and every ordered stream a constructor
\* returns a PDAG exactly when the input is valid (values 1 or 2, nothing on
\* the diagonal, no conflicting marks, no directed cycle); an input valid but
\* for a directed cycle gives NotAcyclic, and NotAcyclic is only given when
\* the directed edges hold a cycle.
C6_ValidIffLoaded ==
    (Finished /\ Ordered(fed)) =>
        /\ (outcome.kind = "Ok") <=> ValidInput(layout, size, fed)
        /\ (ValuesAndPairsFine(layout, fed) /\ DirectedCycleIn(layout, size, fed))
              => outcome = Err("NotAcyclic")
        /\ outcome = Err("NotAcyclic") => DirectedCycleIn(layout, size, fed)

\* the same restricted to declared sizes of at least one
C6_FromOneNode == size >= 1 => C6_ValidIffLoaded

-----------------------------------------------------------------------------
ErrorTaxonomy == {"SelfLoop", "BadValue", "NotSimple", "OutOfOrder", "NotAcyclic"}

\* C7 as stated: whenever a constructor does not return a PDAG it returns a
\* typed error of the taxonomy (SelfLoop, BadValue, NotSimple, OutOfOrder or
\* NotAcyclic); no validation failure aborts the call.
C7_EveryFailureTyped ==
    (Finished /\ outcome.kind # "Ok") =>
        (outcome.kind = "Err" /\ outcome.err \in ErrorTaxonomy)

\* C7 amended: of the five validation failures only a directed cycle comes
\* back as a typed error (NotAcyclic); a stream out of order, a non-zero
\* diagonal entry, a value outside {0,1,2} and two conflicting marks on one
\* pair each abort the call with a panic, in this order of precedence.
C7_OnlyNotAcyclicTyped ==
    Finished =>
        /\ outcome.kind = "Err" => outcome.err = "NotAcyclic"
        /\ ~Ordered(fed) => outcome = Panic("OutOfOrder")
        /\ (Ordered(fed) /\ SelfLoopIn(fed)) => outcome = Panic("SelfLoop")
        /\ (Ordered(fed) /\ ~SelfLoopIn(fed) /\ BadValueIn(fed))
              => outcome = Panic("BadValue")
        /\ (Ordered(fed) /\ ~SelfLoopIn(fed) /\ ~BadValueIn(fed) /\ ConflictIn(layout, fed))
              => outcome = Panic("NotSimple")
        /\ (Ordered(fed) /\ ValuesAndPairsFine(layout, fed)
                /\ DirectedCycleIn(layout, size, fed))
              => outcome = Err("NotAcyclic")
        /\ outcome.kind = "Panic" => (~Ordered(fed) \/ ~ValuesAndPairsFine(layout, fed))

\* a call that aborted on two conflicting marks after three triples went through
C7_Witness ==
    /\ outcome = Panic("NotSimple")
    /\ Len(fed) >= 3
    /\ DirectedIn(layout, fed) # {} /\ UndirectedIn(fed) # {}

-----------------------------------------------------------------------------
IsAscending(vec) == \A k \in 1 .. Len(vec) - 1 : vec[k] <= vec[k + 1]
IsStrictlyAscending(vec) == \A k \in 1 .. Len(vec) - 1 : vec[k] < vec[k + 1]

\* C8 as stated: in every loaded PDAG each of the five queries returns an
\* ascending sequence, at every vertex.
C8_FiveQueriesSorted ==
    outcome.kind = "Ok" =>
        \A v \in Nodes(size) :
            /\ IsAscending(parents_of(outcome.pdag, v))
            /\ IsAscending(children_of(outcome.pdag, v))
            /\ IsAscending(adjacent_undirected_of(outcome.pdag, v))
            /\ IsAscending(possible_parents_of(outcome.pdag, v))
            /\ IsAscending(possible_children_of(outcome.pdag, v))

\* C8 amended: parents_of, children_of and adjacent_undirected_of are strictly
\* ascending; possible_parents_of is the parents followed by the undirected
\* neighbours and possible_children_of the undirected neighbours followed by
\* the children, two ascending runs that need not be ascending as a whole.
C8_ThreeSortedTwoConcatenated ==
    outcome.kind = "Ok" =>
        \A v \in Nodes(size) :
            /\ IsStrictlyAscending(parents_of(outcome.pdag, v))
            /\ IsStrictlyAscending(children_of(outcome.pdag, v))
            /\ IsStrictlyAscending(adjacent_undirected_of(outcome.pdag, v))
            /\ possible_parents_of(outcome.pdag, v)
                  = parents_of(outcome.pdag, v) \o adjacent_undirected_of(outcome.pdag, v)
            /\ possible_children_of(outcome.pdag, v)
                  = adjacent_undirected_of(outcome.pdag, v) \o children_of(outcome.pdag, v)

\* a loaded PDAG with a vertex whose possible parents are not ascending and a
\* vertex whose possible children are not ascending
C8_Witness ==
    /\ outcome.kind = "Ok"
    /\ \E v \in Nodes(size) : ~IsAscending(possible_parents_of(outcome.pdag, v))
    /\ \E w \in Nodes(size) : ~IsAscending(possible_children_of(outcome.pdag, w))

-----------------------------------------------------------------------------
\* the dense matrix whose non-zero entries are the triples of a stream
DenseOf(n, stream) ==
    [r \in Nodes(n) |-> [c \in Nodes(n) |->
        IF \E k \in 1 .. Len(stream) : stream[k][1] = r /\ stream[k][2] = c
        THEN (CHOOSE t \in Elems(stream) : t[1] = r /\ t[2] = c)[3]
        ELSE 0]]

\* C4: whenever a matrix M loads with the row-to-column interpretation, M
\* loaded row-major and the transpose of M loaded column-major are the same
\* PDAG in every field (node count, offsets, neighbour sequence, degrees,
\* edge counts, kind).
C4_RowMajorEqualsTransposedColMajor ==
    (outcome.kind = "Ok" /\ layout = "RowMajor" /\ size >= 1) =>
        LET M == DenseOf(size, fed)
        IN  /\ from_row_to_col_vecvec(size, M) = outcome
            /\ from_col_to_row_vecvec(size, Transpose(size, M)) = outcome

\* a matrix with directed and undirected marks that is not symmetric was loaded
C4_Witness ==
    /\ outcome.kind = "Ok" /\ layout = "RowMajor" /\ size = MaxNodes
    /\ Len(fed) >= 3
    /\ outcome.pdag.n_directed_edges >= 2
    /\ outcome.pdag.n_undirected_edges >= 1
    /\ DenseOf(size, fed) # Transpose(size, DenseOf(size, fed))

-----------------------------------------------------------------------------
\* the triples of a set put in the declared order (outer first, then inner)
RECURSIVE OrderedStream(_)
OrderedStream(S) ==
    IF S = {} THEN << >>
    ELSE LET first == CHOOSE t \in S : \A u \in S :
                          t[1] < u[1] \/ (t[1] = u[1] /\ t[2] <= u[2])
         IN  <<first>> \o OrderedStream(S \ {first})

\* the stream with the undirected edge i -- j coded as `coding` says: at
\* (i, j) only, at (j, i) only, or at both positions
Recoded(stream, i, j, coding) ==
    LET others == {t \in Elems(stream) : {t[1], t[2]} # {i, j}}
        marks == CASE coding = "ij" -> {<<i, j, 2>>}
                   [] coding = "ji" -> {<<j, i, 2>>}
                   [] coding = "both" -> {<<i, j, 2>>, <<j, i, 2>>}
    IN  OrderedStream(others \cup marks)

Occurrences(vec, x) == Cardinality({k \in 1 .. Len(vec) : vec[k] = x})

\* C5: for an input that loads, each undirected edge i -- j may be coded by a
\* 2 at (i, j) only, at (j, i) only or at both: the three codings load to the
\* same PDAG, in which j occurs exactly once among the undirected neighbours of
\* i and i exactly once among those of j, and the undirected-edge count is the
\* number of undirected edges.
C5_UndirectedCodingIrrelevant ==
    outcome.kind = "Ok" =>
        /\ \A i \in Nodes(size), j \in Nodes(size) :
              {i, j} \in UndirectedIn(fed) =>
                  /\ \A coding \in {"ij", "ji", "both"} :
                        TryFrom(layout, size, Recoded(fed, i, j, coding)) = outcome
                  /\ Occurrences(adjacent_undirected_of(outcome.pdag, i), j) = 1
                  /\ Occurrences(adjacent_undirected_of(outcome.pdag, j), i) = 1
        /\ outcome.pdag.n_undirected_edges = Cardinality(UndirectedIn(fed))

\* a loaded input with one undirected edge coded at both positions, another
\* coded once, and a directed edge
C5_Witness ==
    /\ outcome.kind = "Ok"
    /\ DirectedIn(layout, fed) # {}
    /\ \E i \in Nodes(size), j \in Nodes(size) :
          /\ <<i, j, 2>> \in Elems(fed) /\ <<j, i, 2>> \in Elems(fed)
          /\ \E k \in Nodes(size) \ {i, j} :
                <<i, k, 2>> \in Elems(fed) /\ <<k, i, 2>> \notin Elems(fed)

-----------------------------------------------------------------------------
(* The sorted-list primitives on their own: two non-descending vectors of  *)
(* node indices, duplicates allowed, and one call of a primitive on them.  *)

\* the non-descending vectors over 0 .. n-1 of length at most len
NonDescending(n, len) ==
    UNION {{vec \in [1 .. l -> Nodes(n)] : IsAscending(vec)} : l \in 0 .. len}

InitLists ==
    /\ pc = "lists"
    /\ list1 \in NonDescending(MaxNodes, MaxListLen)
    /\ list2 \in NonDescending(MaxNodes, MaxListLen)
    /\ listOut = Idle
    /\ layout = "RowMajor" /\ size = 0 /\ fed = << >> /\ previous_index = None
    /\ acc = NewAcc(0) /\ outcome = Running
    /\ truth = Idle /\ guess = Idle /\ dist = Idle
    /\ graph = Idle /\ treat = << >> /\ adjust = {} /\ sets = Idle

Returned(fn, value) == [fn |-> fn, value |-> value]

CallFirstShared ==
    /\ pc = "lists"
    /\ listOut' = Returned("first_shared", ascending_lists_first_shared_element(list1, list2))
    /\ UNCHANGED <<pc, loadVars, distVars, reachVars, list1, list2>>

CallSymmetricDifference ==
    /\ pc = "lists"
    /\ listOut' = Returned("symmetric_difference",
                           ascending_lists_set_symmetric_difference(list1, list2))
    /\ UNCHANGED <<pc, loadVars, distVars, reachVars, list1, list2>>

CallUnion ==
    /\ pc = "lists"
    /\ listOut' = Returned("union", ascending_lists_set_union(list1, list2))
    /\ UNCHANGED <<pc, loadVars, distVars, reachVars, list1, list2>>

NextLists == CallFirstShared \/ CallSymmetricDifference \/ CallUnion

SpecLists == InitLists /\ [][NextLists]_vars

\* C9 as stated: on non-descending inputs, duplicates allowed, the symmetric
\* difference returned is exactly the strictly increasing vector of the values
\* that occur in exactly one of the two inputs; a value that occurs in both is
\* never returned, however often it occurs.
C9_SymmetricDifferenceOfSets ==
    (listOut # Idle /\ listOut.fn = "symmetric_difference") =>
        listOut.value = SetToAscending((Elems(list1) \ Elems(list2))
                                         \cup (Elems(list2) \ Elems(list1)))

\* the same when neither input repeats a value
C9_WithoutDuplicates ==
    (listOut # Idle /\ listOut.fn = "symmetric_difference"
        /\ IsStrictlyAscending(list1) /\ IsStrictlyAscending(list2)) =>
        listOut.value = SetToAscending((Elems(list1) \ Elems(list2))
                                         \cup (Elems(list2) \ Elems(list1)))

-----------------------------------------------------------------------------
(* The graphs a constructor can return, enumerated by the mark on every    *)
(* unordered pair: none, i -> j, j -> i or i -- j.                         *)

PairsOf(n) == {p \in Nodes(n) \X Nodes(n) : p[1] < p[2]}

Marks == {"none", "forward", "backward", "undirected"}

\* the dense matrix of a marking, read row to column
DenseOfMarks(n, marking) ==
    [r \in Nodes(n) |-> [c \in Nodes(n) |->
        IF r < c THEN (CASE marking[<<r, c>>] = "forward" -> 1
                         [] marking[<<r, c>>] = "undirected" -> 2
                         [] OTHER -> 0)
        ELSE IF c < r THEN (IF marking[<<c, r>>] = "backward" THEN 1 ELSE 0)
        ELSE 0]]

LoadedFromMarks(n, marking) == try_from_row_major(n, from_vecvec(n, DenseOfMarks(n, marking)))

\* every PDAG on n >= 1 nodes that try_from_row_major returns
LoadableGraphs(n) ==
    {LoadedFromMarks(n, marking).pdag :
        marking \in {m \in [PairsOf(n) -> Marks] : LoadedFromMarks(n, m).kind = "Ok"}}

LoadableUpTo(n) == UNION {LoadableGraphs(k) : k \in 1 .. n}

-----------------------------------------------------------------------------
(* One call of a distance on a pair of loaded graphs *)

NoLoad ==
    /\ layout = "RowMajor" /\ size = 0 /\ fed = << >> /\ previous_index = None
    /\ acc = NewAcc(0) /\ outcome = Running

\* what both a pair and a self comparison start from
DistIdle ==
    /\ pc = "dist"
    /\ dist = Idle
    /\ NoLoad
    /\ graph = Idle /\ treat = << >> /\ adjust = {} /\ sets = Idle
    /\ list1 = << >> /\ list2 = << >> /\ listOut = Idle

InitDist ==
    /\ truth \in LoadableUpTo(MaxNodes)
    /\ guess \in LoadableUpTo(MaxNodes)
    /\ DistIdle

\* a graph compared with itself
InitSelf ==
    /\ truth \in LoadableUpTo(MaxNodes)
    /\ guess = truth
    /\ DistIdle

\* what the caller of fn sees: the returned pair, or the panic
Called(fn, r) ==
    IF r.kind = "Panic" THEN [fn |-> fn, kind |-> "Panic", value |-> r.why]
    ELSE [fn |-> fn, kind |-> r.kind, value |-> r.value]

SidCalled(r) ==
    IF r.kind = "Err" THEN [fn |-> "sid", kind |-> "Err", value |-> r.err]
    ELSE Called("sid", r)

CallShd ==
    /\ pc = "dist" /\ dist = Idle
    /\ dist' = Called("shd", shd(truth, guess))
    /\ UNCHANGED <<pc, loadVars, truth, guess, reachVars, listVars>>

CallParentAid ==
    /\ pc = "dist" /\ dist = Idle
    /\ dist' = Called("parent_aid", parent_aid(truth, guess))
    /\ UNCHANGED <<pc, loadVars, truth, guess, reachVars, listVars>>

CallAncestorAid ==
    /\ pc = "dist" /\ dist = Idle
    /\ dist' = Called("ancestor_aid", ancestor_aid(truth, guess))
    /\ UNCHANGED <<pc, loadVars, truth, guess, reachVars, listVars>>

CallOsetAid ==
    /\ pc = "dist" /\ dist = Idle
    /\ dist' = Called("oset_aid", oset_aid(truth, guess))
    /\ UNCHANGED <<pc, loadVars, truth, guess, reachVars, listVars>>

CallSid ==
    /\ pc = "dist" /\ dist = Idle
    /\ dist' = SidCalled(sid(truth, guess))
    /\ UNCHANGED <<pc, loadVars, truth, guess, reachVars, listVars>>

NextDist == CallShd \/ CallParentAid \/ CallAncestorAid \/ CallOsetAid \/ CallSid

SpecDist == InitDist /\ [][NextDist]_vars

SpecSelf == InitSelf /\ [][NextDist]_vars

-----------------------------------------------------------------------------
(* One call of a reachability engine on a loaded graph, a treatment slice  *)
(* of distinct nodes in any order and an adjustment set                    *)

DistinctSeqs(S) ==
    UNION {{vec \in [1 .. l -> S] : \A a \in 1 .. l, b \in 1 .. l : a # b => vec[a] # vec[b]} :
              l \in 0 .. Cardinality(S)}

InitReach ==
    /\ pc = "reach"
    /\ graph \in LoadableUpTo(MaxNodes)
    /\ treat \in DistinctSeqs(Nodes(graph.n_nodes))
    /\ adjust \in SUBSET Nodes(graph.n_nodes)
    /\ sets = Idle
    /\ NoLoad
    /\ truth = Idle /\ guess = Idle /\ dist = Idle
    /\ list1 = << >> /\ list2 = << >> /\ listOut = Idle

CallGetDPdNam ==
    /\ pc = "reach" /\ sets = Idle
    /\ sets' = Returned("get_d_pd_nam", get_d_pd_nam(graph, treat))
    /\ UNCHANGED <<pc, loadVars, distVars, graph, treat, adjust, listVars>>

CallGetPdNam ==
    /\ pc = "reach" /\ sets = Idle
    /\ sets' = Returned("get_pd_nam", get_pd_nam(graph, treat))
    /\ UNCHANGED <<pc, loadVars, distVars, graph, treat, adjust, listVars>>

CallGetNam ==
    /\ pc = "reach" /\ sets = Idle
    /\ sets' = Returned("get_nam", get_nam(graph, treat))
    /\ UNCHANGED <<pc, loadVars, distVars, graph, treat, adjust, listVars>>

CallGetPdNamNva ==
    /\ pc = "reach" /\ sets = Idle
    /\ sets' = Returned("get_pd_nam_nva", get_pd_nam_nva(graph, treat, adjust))
    /\ UNCHANGED <<pc, loadVars, distVars, graph, treat, adjust, listVars>>

CallGetNamNva ==
    /\ pc = "reach" /\ sets = Idle
    /\ sets' = Returned("get_nam_nva", get_nam_nva(graph, treat, adjust))
    /\ UNCHANGED <<pc, loadVars, distVars, graph, treat, adjust, listVars>>

\* y_of_interest is None or Some of any set of nodes
CallGetInvalidlyUnBlocked ==
    /\ pc = "reach" /\ sets = Idle
    /\ \E y_of_interest \in {None} \cup {Some(S) : S \in SUBSET Nodes(graph.n_nodes)} :
           sets' = [fn |-> "get_invalidly_un_blocked",
                    value |-> get_invalidly_un_blocked(graph, treat, adjust, y_of_interest),
                    y_of_interest |-> y_of_interest]
    /\ UNCHANGED <<pc, loadVars, distVars, graph, treat, adjust, listVars>>

CallPossibleDescendants ==
    /\ pc = "reach" /\ sets = Idle
    /\ sets' = Returned("possible_descendants", possible_descendants(graph, treat))
    /\ UNCHANGED <<pc, loadVars, distVars, graph, treat, adjust, listVars>>

\* the optimal adjustment set for one response, t_descendants precomputed by
\* the caller as descendants(dag, treatments)
CallOptimalAdjustmentSet ==
    /\ pc = "reach" /\ sets = Idle
    /\ \E y \in Nodes(graph.n_nodes) :
           sets' = [fn |-> "optimal_adjustment_set",
                    value |-> optimal_adjustment_set(graph, treat, <<y>>,
                                                     descendants(graph, treat)),
                    responses |-> <<y>>]
    /\ UNCHANGED <<pc, loadVars, distVars, graph, treat, adjust, listVars>>

\* the helper as the engines call it: at a node v they arrived at by an edge,
\* with node_is_adjustment = z.contains(&node)
CallGetNextStepsConditioned ==
    /\ pc = "reach" /\ sets = Idle
    /\ \E arrived_by \in {"Init", "Incoming", "Outgoing", "Undirected"},
          v \in Nodes(graph.n_nodes) :
           sets' = [fn |-> "get_next_steps_conditioned",
                    value |-> get_next_steps_conditioned(graph, treat, arrived_by, v,
                                                         v \in adjust),
                    arrived_by |-> arrived_by, v |-> v]
    /\ UNCHANGED <<pc, loadVars, distVars, graph, treat, adjust, listVars>>

NextReach ==
    \/ CallGetDPdNam \/ CallGetPdNam \/ CallGetNam \/ CallGetPdNamNva \/ CallGetNamNva
    \/ CallGetInvalidlyUnBlocked
    \/ CallPossibleDescendants \/ CallOptimalAdjustmentSet
    \/ CallGetNextStepsConditioned

SpecReach == InitReach /\ [][NextReach]_vars

\* C10: for every graph, treatment slice t and adjustment set z disjoint from
\* t: get_d_pd_nam returns D and NAM inside PD, get_pd_nam returns NAM inside
\* PD, and get_pd_nam_nva returns NAM inside NVA, NVA inside V \ T and T
\* inside PD.
C10_Containments ==
    (sets # Idle) =>
        /\ sets.fn = "get_d_pd_nam" =>
              /\ sets.value[1] \subseteq sets.value[2]
              /\ sets.value[3] \subseteq sets.value[2]
        /\ sets.fn = "get_pd_nam" => sets.value[2] \subseteq sets.value[1]
        /\ (sets.fn = "get_pd_nam_nva" /\ adjust \cap Elems(treat) = {}) =>
              /\ sets.value[2] \subseteq sets.value[3]
              /\ sets.value[3] \subseteq (Nodes(graph.n_nodes) \ Elems(treat))
              /\ Elems(treat) \subseteq sets.value[1]

\* get_pd_nam_nva returned a non-empty NAM, a larger NVA and a PD that is not
\* every node, for a non-empty adjustment set disjoint from the treatment
C10_Witness ==
    /\ sets # Idle /\ sets.fn = "get_pd_nam_nva"
    /\ adjust # {} /\ adjust \cap Elems(treat) = {} /\ treat # << >>
    /\ sets.value[2] # {}
    /\ sets.value[2] # sets.value[3]
    /\ sets.value[1] # Nodes(graph.n_nodes)

\* C11: for every graph, treatment slice t and adjustment set z disjoint from
\* t, the NVA set of get_pd_nam_nva equals the union of the set returned by
\* get_invalidly_un_blocked without y_of_interest and the NAM set
C11_NvaIsIvbUnionNam ==
    (/\ sets # Idle /\ sets.fn = "get_invalidly_un_blocked"
     /\ sets.y_of_interest = None
     /\ adjust \cap Elems(treat) = {}) =>
        LET full == get_pd_nam_nva(graph, treat, adjust)
        IN  full[3] = sets.value \cup full[2]

\* get_invalidly_un_blocked returned, without y_of_interest, more than the
\* adjustment set but not all of NVA, the graph being not amenable for some node
C11_Witness ==
    /\ sets # Idle /\ sets.fn = "get_invalidly_un_blocked"
    /\ sets.y_of_interest = None
    /\ adjust \cap Elems(treat) = {} /\ treat # << >>
    /\ sets.value \ adjust # {}
    /\ get_pd_nam_nva(graph, treat, adjust)[2] \ sets.value # {}


\* C12: for every graph, treatment slice t and adjustment set z disjoint from
\* t, every pruned engine returns on each output it shares with
\* get_pd_nam_nva(g, t, z) the same set (NAM of get_nam, get_pd_nam,
\* get_d_pd_nam, get_nam_nva; PD of get_pd_nam, get_d_pd_nam; NVA of
\* get_nam_nva), and the PD and NAM of get_pd_nam_nva are the same for every
\* other adjustment set disjoint from t
C12_PrunedEnginesAgree ==
    (sets # Idle /\ adjust \cap Elems(treat) = {}) =>
        LET full == get_pd_nam_nva(graph, treat, adjust)
        IN  /\ sets.fn = "get_nam" => sets.value = full[2]
            /\ sets.fn = "get_pd_nam" =>
                  sets.value[1] = full[1] /\ sets.value[2] = full[2]
            /\ sets.fn = "get_d_pd_nam" =>
                  sets.value[2] = full[1] /\ sets.value[3] = full[2]
            /\ sets.fn = "get_nam_nva" =>
                  sets.value[1] = full[2] /\ sets.value[2] = full[3]
            /\ sets.fn = "get_pd_nam_nva" =>
                  \A other \in SUBSET (Nodes(graph.n_nodes) \ Elems(treat)) :
                      LET again == get_pd_nam_nva(graph, treat, other)
                      IN  again[1] = sets.value[1] /\ again[2] = sets.value[2]

\* get_nam_nva returned a non-empty NAM and a larger NVA that is more than
\* NAM and the adjustment set, for a non-empty adjustment set disjoint from
\* the treatment
C12_Witness ==
    /\ sets # Idle /\ sets.fn = "get_nam_nva"
    /\ adjust # {} /\ adjust \cap Elems(treat) = {} /\ treat # << >>
    /\ sets.value[1] # {}
    /\ sets.value[2] \ (sets.value[1] \cup adjust) # {}

\* C13 as stated: every output of the unconditioned engines (D, PD and NAM
\* of get_d_pd_nam, get_pd_nam and get_nam) contains no treatment vertex
C13_OutputsAvoidTreatment ==
    (sets # Idle) =>
        LET T == Elems(treat)
        IN  /\ sets.fn = "get_d_pd_nam" =>
                  /\ sets.value[1] \cap T = {}
                  /\ sets.value[2] \cap T = {}
                  /\ sets.value[3] \cap T = {}
            /\ sets.fn = "get_pd_nam" =>
                  sets.value[1] \cap T = {} /\ sets.value[2] \cap T = {}
            /\ sets.fn = "get_nam" => sets.value \cap T = {}

\* C13 amended: the NAM of get_d_pd_nam, get_pd_nam and get_nam contains no
\* treatment vertex, while D and PD contain every treatment vertex
C13_NamAvoidsTreatmentDAndPdContainIt ==
    (sets # Idle) =>
        LET T == Elems(treat)
        IN  /\ sets.fn = "get_d_pd_nam" =>
                  /\ T \subseteq sets.value[1]
                  /\ T \subseteq sets.value[2]
                  /\ sets.value[3] \cap T = {}
            /\ sets.fn = "get_pd_nam" =>
                  T \subseteq sets.value[1] /\ sets.value[2] \cap T = {}
            /\ sets.fn = "get_nam" => sets.value \cap T = {}

\* get_d_pd_nam returned, for two treatments, a non-empty NAM and a PD
\* larger than D
C13_Witness ==
    /\ sets # Idle /\ sets.fn = "get_d_pd_nam"
    /\ Len(treat) = 2
    /\ sets.value[3] # {}
    /\ sets.value[1] # sets.value[2]

-----------------------------------------------------------------------------
Zero == <<ZeroF64, 0>>

\* the four distances that return a pair whenever they return
FourDistances == {"shd", "parent_aid", "ancestor_aid", "oset_aid"}

\* C2: for every DAG G on at least two nodes, each of shd, parent_aid,
\* ancestor_aid and oset_aid returns (0.0, 0) on (G, G).
C2_DagSelfDistanceZero ==
    (dist # Idle /\ dist.fn \in FourDistances /\ guess = truth
     /\ truth.n_nodes >= 2 /\ truth.pdag_type = "DAG") =>
        dist.value = Zero

\* a DAG on MaxNodes nodes with a collider or a chain was compared with itself
C2_Witness ==
    /\ dist # Idle /\ guess = truth /\ truth.pdag_type = "DAG"
    /\ truth.n_nodes = MaxNodes /\ truth.n_directed_edges >= 2
    /\ dist.fn = "oset_aid" /\ dist.value = Zero

\* C1 as stated: for every loaded graph G on at least two nodes (a DAG, or a
\* graph with an undirected edge and no directed cycle), each of the four
\* distances returns (0.0, 0) on (G, G).
C1_SelfDistanceZero ==
    (dist # Idle /\ dist.fn \in FourDistances /\ guess = truth /\ truth.n_nodes >= 2) =>
        dist.value = Zero

\* the directed edges <<from, to>> of a PDAG, and its adjacent ordered pairs
DirectedEdgesOf(g) ==
    {e \in Nodes(g.n_nodes) \X Nodes(g.n_nodes) : e[1] \in Elems(parents_of(g, e[2]))}

AdjacentPairsOf(g) ==
    {e \in Nodes(g.n_nodes) \X Nodes(g.n_nodes) :
        \/ e[1] \in Elems(parents_of(g, e[2]))
        \/ e[1] \in Elems(children_of(g, e[2]))
        \/ e[1] \in Elems(adjacent_undirected_of(g, e[2]))}

\* the unshielded colliders a -> c <- b of a set of directed edges
VStructures(E, adjacent) ==
    {abc \in {<<e[1], e[2], f[1]>> : e \in E, f \in E} :
        /\ <<abc[1], abc[2]>> \in E /\ <<abc[3], abc[2]>> \in E
        /\ abc[1] < abc[3]
        /\ <<abc[1], abc[3]>> \notin adjacent}

\* the DAGs with the skeleton and the unshielded colliders of g
EquivalentDags(g) ==
    LET adjacent == AdjacentPairsOf(g)
        upper == {e \in adjacent : e[1] < e[2]}
        oriented(flipped) == (upper \ flipped) \cup {<<e[2], e[1]>> : e \in flipped}
    IN  {oriented(flipped) : flipped \in
            {F \in SUBSET upper :
                /\ \A p \in PathsUpTo(oriented(F), g.n_nodes) : p[1] # p[2]
                /\ VStructures(oriented(F), adjacent)
                      = VStructures(DirectedEdgesOf(g), adjacent)}}

\* g is a completed PDAG: its directed edges are exactly the edges on which
\* all DAGs of one Markov equivalence class agree, the others are undirected
IsCompletedPdag(g) ==
    LET class == EquivalentDags(g)
    IN  /\ class # {}
        /\ DirectedEdgesOf(g) =
              {e \in AdjacentPairsOf(g) : \A D \in class : e \in D}

\* C1 amended: shd(G, G) is (0.0, 0) for every loaded graph G on at least two
\* nodes; parent_aid, ancestor_aid and oset_aid return (0.0, 0) on (G, G) when
\* G is a DAG or a completed PDAG (the graph of a Markov equivalence class),
\* which is less than what the loader classifies as CPDAG.
C1_SelfDistanceZeroOnDagsAndCpdags ==
    (dist # Idle /\ dist.fn \in FourDistances /\ guess = truth /\ truth.n_nodes >= 2) =>
        /\ dist.fn = "shd" => dist.value = Zero
        /\ (truth.pdag_type = "DAG" \/ IsCompletedPdag(truth)) => dist.value = Zero

\* a completed PDAG with an undirected edge was compared with itself by
\* parent_aid
C1_Witness ==
    /\ dist # Idle /\ guess = truth /\ truth.n_nodes >= 2
    /\ dist.fn = "parent_aid" /\ dist.value = Zero
    /\ truth.pdag_type = "CPDAG" /\ IsCompletedPdag(truth)
    /\ truth.n_undirected_edges >= 1

-----------------------------------------------------------------------------
\* the number of comparisons a distance divides by on n nodes
ComparisonsOf(fn, n) == IF fn = "shd" THEN (n * (n - 1)) \div 2 ELSE n * (n - 1)

\* C3: for every pair of loaded graphs on the same n >= 2 nodes, the count a
\* distance returns lies between 0 and its number of comparisons (n(n-1)/2
\* for shd, n(n-1) for the three adjustment distances), and the fraction is
\* the count divided by that number, between 0 and 1.
C3_CountAndFractionInRange ==
    (dist # Idle /\ dist.fn \in FourDistances
     /\ truth.n_nodes = guess.n_nodes /\ truth.n_nodes >= 2) =>
        LET comparisons == ComparisonsOf(dist.fn, truth.n_nodes)
            fraction == dist.value[1]
            count == dist.value[2]
        IN  /\ count \in 0 .. comparisons
            /\ fraction.num * comparisons = count * fraction.den
            /\ fraction.den > 0
            /\ 0 <= fraction.num /\ fraction.num <= fraction.den

\* two different graphs on MaxNodes nodes at the largest shd there is
C3_Witness ==
    /\ dist # Idle /\ dist.fn = "shd"
    /\ truth.n_nodes = MaxNodes /\ guess.n_nodes = MaxNodes
    /\ dist.value[2] = ComparisonsOf("shd", MaxNodes)
    /\ dist.value[1] = [num |-> 1, den |-> 1]

\* C14 as stated: sid fails with TruthNotDAG when truth is not a DAG,
\* otherwise with GuessNotDAG when guess is not a DAG, otherwise with
\* NotSameSize when the node counts differ, and otherwise returns the pair of
\* parent_aid(truth, guess)
C14_SidErrorsElseParentAid ==
    (dist # Idle /\ dist.fn = "sid") =>
        IF truth.pdag_type # "DAG" THEN dist.kind = "Err" /\ dist.value = "TruthNotDAG"
        ELSE IF guess.pdag_type # "DAG" THEN dist.kind = "Err" /\ dist.value = "GuessNotDAG"
        ELSE IF truth.n_nodes # guess.n_nodes
        THEN dist.kind = "Err" /\ dist.value = "NotSameSize"
        ELSE /\ dist.kind = "Ok"
             /\ parent_aid(truth, guess).kind = "Returns"
             /\ dist.value = parent_aid(truth, guess).value

\* C14 amended: the three errors in that order, otherwise Ok of the pair of
\* parent_aid(truth, guess) for DAGs on n >= 2 nodes, and the panic of
\* parent_aid for two DAGs on one node
C14_SidErrorsElseParentAidFromTwoNodes ==
    (dist # Idle /\ dist.fn = "sid") =>
        IF truth.pdag_type # "DAG" THEN dist.kind = "Err" /\ dist.value = "TruthNotDAG"
        ELSE IF guess.pdag_type # "DAG" THEN dist.kind = "Err" /\ dist.value = "GuessNotDAG"
        ELSE IF truth.n_nodes # guess.n_nodes
        THEN dist.kind = "Err" /\ dist.value = "NotSameSize"
        ELSE IF truth.n_nodes >= 2
        THEN /\ dist.kind = "Ok"
             /\ parent_aid(truth, guess).kind = "Returns"
             /\ dist.value = parent_aid(truth, guess).value
        ELSE /\ dist.kind = "Panic"
             /\ dist.value = "graph must contain at least 2 nodes"

\* sid returned a non-zero distance between two DAGs on MaxNodes nodes
C14_Witness ==
    /\ dist # Idle /\ dist.fn = "sid" /\ dist.kind = "Ok"
    /\ truth.n_nodes = MaxNodes
    /\ dist.value[2] > 0

\* C15: a call of a distance on two graphs of different node counts is
\* rejected (a panic, or the error of sid); on two graphs of one node shd
\* returns (0, 0) while parent_aid, ancestor_aid and oset_aid (and sid, which
\* delegates to parent_aid) are rejected and return no distance
C15_SizeMismatchAndOneNode ==
    (dist # Idle) =>
        /\ truth.n_nodes # guess.n_nodes => dist.kind \in {"Panic", "Err"}
        /\ (truth.n_nodes = guess.n_nodes /\ truth.n_nodes <= 1) =>
              IF dist.fn = "shd"
              THEN dist.kind = "Returns" /\ dist.value = Zero
              ELSE dist.kind = "Panic"

\* oset_aid panicked on two graphs of one node
C15_Witness ==
    /\ dist # Idle /\ dist.fn = "oset_aid"
    /\ truth.n_nodes = 1 /\ guess.n_nodes = 1
    /\ dist.kind = "Panic" /\ dist.value = "graph must contain at least 2 nodes"

(* The graphs of the worked examples *)

\* the dag X -> Y and the cpdag X - Y
DagXY == from_row_to_col_vecvec(2, VecVec(<<<<0, 1>>, <<0, 0>>>>)).pdag
CpdagXY == from_row_to_col_vecvec(2, VecVec(<<<<0, 2>>, <<0, 0>>>>)).pdag

One == [num |-> 1, den |-> 1]

\* C16: between the two-node graphs 0 -> 1 and 0 - 1, in either role,
\* parent_aid, ancestor_aid and oset_aid each return (1.0, 2)
C16_NamCountedAsMistake ==
    (/\ dist # Idle /\ dist.fn \in {"parent_aid", "ancestor_aid", "oset_aid"}
     /\ \/ truth = DagXY /\ guess = CpdagXY
        \/ truth = CpdagXY /\ guess = DagXY) =>
        dist.kind = "Returns" /\ dist.value = <<One, 2>>

\* ancestor_aid returned for truth 0 - 1 and guess 0 -> 1
C16_Witness ==
    /\ dist # Idle /\ dist.fn = "ancestor_aid" /\ dist.kind = "Returns"
    /\ truth = CpdagXY /\ guess = DagXY
    /\ dist.value[2] = 2

\* the DAGs g, h1 and h2 of sid_paper_test
SidPaperG ==
    from_row_to_col_vecvec(5, VecVec(<<<<0, 1, 1, 1, 1>>,
                                       <<0, 0, 1, 1, 1>>,
                                       <<0, 0, 0, 0, 0>>,
                                       <<0, 0, 0, 0, 0>>,
                                       <<0, 0, 0, 0, 0>>>>)).pdag
SidPaperH1 ==
    from_row_to_col_vecvec(5, VecVec(<<<<0, 1, 1, 1, 1>>,
                                       <<0, 0, 1, 1, 1>>,
                                       <<0, 0, 0, 1, 0>>,
                                       <<0, 0, 0, 0, 0>>,
                                       <<0, 0, 0, 0, 0>>>>)).pdag
SidPaperH2 ==
    from_row_to_col_vecvec(5, VecVec(<<<<0, 0, 1, 1, 1>>,
                                       <<1, 0, 1, 1, 1>>,
                                       <<0, 0, 0, 0, 0>>,
                                       <<0, 0, 0, 0, 0>>,
                                       <<0, 0, 0, 0, 0>>>>)).pdag

\* One call of a distance on a pair of the graphs of the tests
InitPaper ==
    /\ truth \in {DagXY, CpdagXY, SidPaperG, SidPaperH1, SidPaperH2}
    /\ guess \in {DagXY, CpdagXY, SidPaperG, SidPaperH1, SidPaperH2}
    /\ DistIdle

SpecPaper == InitPaper /\ [][NextDist]_vars

\* C17: with truth the DAG 0 -> 1, 0 -> 2, 0 -> 3, 0 -> 4, 1 -> 2, 1 -> 3,
\* 1 -> 4, parent_aid is (0, 0) for the guess that adds 2 -> 3 and (0.4, 8)
\* for the guess that has 1 -> 0 in place of 0 -> 1
C17_SidPaperValues ==
    (dist # Idle /\ dist.fn = "parent_aid" /\ truth = SidPaperG) =>
        /\ guess = SidPaperH1 => dist.kind = "Returns" /\ dist.value = Zero
        /\ guess = SidPaperH2 =>
              dist.kind = "Returns" /\ dist.value = <<[num |-> 2, den |-> 5], 8>>

\* parent_aid returned for truth g and guess h2
C17_Witness ==
    /\ dist # Idle /\ dist.fn = "parent_aid" /\ dist.kind = "Returns"
    /\ truth = SidPaperG /\ guess = SidPaperH2
    /\ truth.n_nodes = 5 /\ truth.n_directed_edges = 7 /\ guess.n_directed_edges = 7

\* the diamond 0 -> 1, 0 -> 2, 1 -> 3, 2 -> 3
Diamond ==
    from_row_to_col_vecvec(4, VecVec(<<<<0, 1, 1, 0>>,
                                       <<0, 0, 0, 1>>,
                                       <<0, 0, 0, 1>>,
                                       <<0, 0, 0, 0>>>>)).pdag

\* the cpdag of nam_test and test_possible_descendants: 0 -> 1, 1 - 2, 0 - 3
NamTestCpdag ==
    from_row_to_col_vecvec(4, VecVec(<<<<0, 1, 0, 2>>,
                                       <<0, 0, 2, 0>>,
                                       <<0, 0, 0, 0>>,
                                       <<0, 0, 0, 0>>>>)).pdag

\* the graph 0 - 1, 1 - 2, 0 -> 3
ChainWithChild ==
    from_row_to_col_vecvec(4, VecVec(<<<<0, 2, 0, 1>>,
                                       <<0, 0, 2, 0>>,
                                       <<0, 0, 0, 0>>,
                                       <<0, 0, 0, 0>>>>)).pdag

\* One call of a reachability engine or search on one of the four-node graphs
InitFour ==
    /\ pc = "reach"
    /\ graph \in {Diamond, NamTestCpdag, ChainWithChild}
    /\ treat \in DistinctSeqs(Nodes(graph.n_nodes))
    /\ adjust \in SUBSET Nodes(graph.n_nodes)
    /\ sets = Idle
    /\ NoLoad
    /\ truth = Idle /\ guess = Idle /\ dist = Idle
    /\ list1 = << >> /\ list2 = << >> /\ listOut = Idle

SpecFour == InitFour /\ [][NextReach]_vars

\* C18 as stated: in the diamond the optimal adjustment set for response 3 is
\* empty for treatment 0, {0} for treatment 1 and {0} for treatment 2
C18_DiamondOsets ==
    (/\ sets # Idle /\ sets.fn = "optimal_adjustment_set"
     /\ graph = Diamond /\ sets.responses = <<3>>) =>
        /\ treat = <<0>> => sets.value = {}
        /\ treat = <<1>> => sets.value = {0}
        /\ treat = <<2>> => sets.value = {0}

\* C18 amended: in the diamond the optimal adjustment set for response 3 is
\* empty for treatment 0, {2} for treatment 1 and {1} for treatment 2
C18_DiamondOsetsOtherBranch ==
    (/\ sets # Idle /\ sets.fn = "optimal_adjustment_set"
     /\ graph = Diamond /\ sets.responses = <<3>>) =>
        /\ treat = <<0>> => sets.value = {}
        /\ treat = <<1>> => sets.value = {2}
        /\ treat = <<2>> => sets.value = {1}

\* optimal_adjustment_set returned a non-empty set for treatment 1 and
\* response 3 in the diamond
C18_Witness ==
    /\ sets # Idle /\ sets.fn = "optimal_adjustment_set"
    /\ graph = Diamond /\ treat = <<1>> /\ sets.responses = <<3>>
    /\ sets.value # {}

\* C19 as stated: in the graph 0 - 1, 1 - 2, 0 -> 3 get_nam for treatment 0
\* returns {3} and possible_descendants of 0 is {0, 1, 2, 3}
C19_ChainWithChildNam ==
    (sets # Idle /\ graph = ChainWithChild /\ treat = <<0>>) =>
        /\ sets.fn = "get_nam" => sets.value = {3}
        /\ sets.fn = "possible_descendants" => sets.value = {0, 1, 2, 3}

\* C19 amended: in the graph 0 - 1, 1 - 2, 0 -> 3 get_nam for treatment 0
\* returns {1, 2}; it returns {3} in the graph 0 -> 1, 1 - 2, 0 - 3; in both
\* graphs possible_descendants of 0 is {0, 1, 2, 3}
C19_NamIsReachedByUndirectedStart ==
    (sets # Idle /\ treat = <<0>>) =>
        /\ (sets.fn = "get_nam" /\ graph = ChainWithChild) => sets.value = {1, 2}
        /\ (sets.fn = "get_nam" /\ graph = NamTestCpdag) => sets.value = {3}
        /\ (sets.fn = "possible_descendants" /\ graph \in {ChainWithChild, NamTestCpdag}) =>
              sets.value = {0, 1, 2, 3}

\* get_nam returned for treatment 0 in the graph 0 - 1, 1 - 2, 0 -> 3
C19_Witness ==
    /\ sets # Idle /\ sets.fn = "get_nam"
    /\ graph = ChainWithChild /\ treat = <<0>>
    /\ sets.value # {}

-----------------------------------------------------------------------------
(* The three AIDs as they run: (0..n).into_par_iter().map(closure).sum().  *)
(* A thread of the pool takes any treatment not yet taken, runs the        *)
(* closure on the two graphs and adds the count to the sum of its own      *)
(* pieces; the sums of the threads are added when no treatment is left.    *)

Workers == 1 .. NumThreads

\* the closure of fn for one treatment
MistakesOf(fn, g_truth, g_guess, treatment) ==
    CASE fn = "parent_aid" -> ParentAidMistakes(g_truth, g_guess, treatment)
      [] fn = "ancestor_aid" -> AncestorAidMistakes(g_truth, g_guess, treatment)
      [] fn = "oset_aid" -> OsetAidMistakes(g_truth, g_guess, treatment)

\* the threads' sums added up, only the first thread's sum taken
FirstLocalOnly(local, w) == local[1]

\* the threads' sums added up
RECURSIVE SumLocals(_, _)
SumLocals(local, w) == IF w = 0 THEN 0 ELSE SumLocals(local, w - 1) + local[w]

InitPar ==
    /\ pc = "par"
    /\ truth \in LoadableUpTo(MaxNodes)
    /\ guess \in LoadableUpTo(MaxNodes)
    /\ dist = Idle
    /\ NoLoad
    /\ graph = Idle /\ treat = << >> /\ adjust = {} /\ sets = Idle
    /\ list1 = << >> /\ list2 = << >> /\ listOut = Idle

\* the two asserts, then the parallel iterator over the treatments
StartPar ==
    /\ pc = "par" /\ dist = Idle
    /\ \E fn \in {"parent_aid", "ancestor_aid", "oset_aid"} :
           dist' = IF guess.n_nodes # truth.n_nodes
                   THEN Called(fn, Panic("both graphs must contain the same number of nodes"))
                   ELSE IF guess.n_nodes < 2
                   THEN Called(fn, Panic("graph must contain at least 2 nodes"))
                   ELSE [fn |-> fn, kind |-> "Running",
                         remaining |-> Nodes(guess.n_nodes),
                         local |-> [w \in Workers |-> 0]]
    /\ UNCHANGED <<pc, loadVars, truth, guess, reachVars, listVars>>

\* a thread runs the closure for one treatment
TaskPar ==
    /\ pc = "par" /\ dist # Idle /\ dist.kind = "Running"
    /\ \E w \in Workers, treatment \in dist.remaining :
           dist' = [dist EXCEPT
                       !.remaining = @ \ {treatment},
                       !.local[w] = @ + MistakesOf(dist.fn, truth, guess, treatment)]
    /\ UNCHANGED <<pc, loadVars, truth, guess, reachVars, listVars>>

\* sum() completes and the distance is normalised
JoinPar ==
    /\ pc = "par" /\ dist # Idle /\ dist.kind = "Running" /\ dist.remaining = {}
    /\ LET verifier_mistakes_found == SumLocals(dist.local, NumThreads)
           n == guess.n_nodes
           comparisons == n * n - n
       IN  dist' = [fn |-> dist.fn, kind |-> "Returns",
                    value |-> <<Ratio(verifier_mistakes_found, comparisons),
                                verifier_mistakes_found>>,
                    local |-> dist.local]
    /\ UNCHANGED <<pc, loadVars, truth, guess, reachVars, listVars>>

NextPar == StartPar \/ TaskPar \/ JoinPar

SpecPar == InitPar /\ [][NextPar]_vars

\* fn(truth, guess) computed over the treatments in ascending order
SequentialOf(fn) ==
    CASE fn = "parent_aid" -> parent_aid(truth, guess)
      [] fn = "ancestor_aid" -> ancestor_aid(truth, guess)
      [] fn = "oset_aid" -> oset_aid(truth, guess)

RECURSIVE SumOfSet(_, _)
SumOfSet(f, S) ==
    IF S = {} THEN 0
    ELSE LET x == CHOOSE y \in S : TRUE IN f[x] + SumOfSet(f, S \ {x})

\* C20: whatever the order in which the threads take the treatments and
\* whichever thread takes which, the threads' sums add up to the sum of the
\* sequentially computed counts of the treatments taken so far, and the pair a
\* parallel AID returns is the pair of the sequential computation
C20_ScheduleIndependent ==
    (pc = "par" /\ dist # Idle) =>
        /\ dist.kind = "Running" =>
              SumOfSet(dist.local, Workers)
                  = SumOfSet([t \in Nodes(guess.n_nodes) |->
                                 MistakesOf(dist.fn, truth, guess, t)],
                             Nodes(guess.n_nodes) \ dist.remaining)
        /\ dist.kind = "Returns" =>
              /\ SequentialOf(dist.fn).kind = "Returns"
              /\ dist.value = SequentialOf(dist.fn).value
        /\ dist.kind = "Panic" =>
              /\ SequentialOf(dist.fn).kind = "Panic"
              /\ dist.value = SequentialOf(dist.fn).why

\* a parallel AID returned a non-zero count to which two threads contributed
C20_Witness ==
    /\ pc = "par" /\ dist # Idle /\ dist.kind = "Returns"
    /\ dist.local[1] > 0 /\ dist.local[2] > 0
    /\ truth.n_nodes = MaxNodes

-----------------------------------------------------------------------------
\* the edge mark of the unordered pair {u, v}, u < v, read off the slices of v
MarkOf(g, u, v) ==
    IF u \in Elems(parents_of(g, v)) THEN "forward"
    ELSE IF u \in Elems(children_of(g, v)) THEN "backward"
    ELSE IF u \in Elems(adjacent_undirected_of(g, v)) THEN "undirected"
    ELSE "none"

DifferingPairs(g1, g2) ==
    {p \in PairsOf(g1.n_nodes) : MarkOf(g1, p[1], p[2]) # MarkOf(g2, p[1], p[2])}

\* C21: for every pair of loaded graphs on the same n >= 1 nodes, the count of
\* shd(truth, guess) is the number of unordered pairs {u, v} whose edge mark
\* differs between the two graphs, and shd(guess, truth) returns the same pair
C21_ShdCountsDifferingPairs ==
    (dist # Idle /\ dist.fn = "shd" /\ truth.n_nodes = guess.n_nodes /\ truth.n_nodes >= 1) =>
        /\ dist.kind = "Returns"
        /\ dist.value[2] = Cardinality(DifferingPairs(truth, guess))
        /\ shd(guess, truth).kind = "Returns"
        /\ shd(guess, truth).value = dist.value

\* shd returned for two graphs on MaxNodes nodes that differ by a reversed
\* edge and by an edge that is directed in one and undirected in the other
C21_Witness ==
    /\ dist # Idle /\ dist.fn = "shd" /\ dist.kind = "Returns"
    /\ truth.n_nodes = MaxNodes /\ guess.n_nodes = MaxNodes
    /\ \E p \in DifferingPairs(truth, guess) :
          MarkOf(truth, p[1], p[2]) = "forward" /\ MarkOf(guess, p[1], p[2]) = "backward"
    /\ \E p \in DifferingPairs(truth, guess) :
          MarkOf(truth, p[1], p[2]) = "undirected" /\ MarkOf(guess, p[1], p[2]) = "forward"
    /\ dist.value[2] = 2

-----------------------------------------------------------------------------
\* the vertices other than t with a directed path to t
DirectedAncestorsOf(g, t) ==
    {v \in Nodes(g.n_nodes) \ {t} : <<v, t>> \in PathsUpTo(DirectedEdgesOf(g), g.n_nodes)}

\* the adjustment set Z_t and the claimed effects of the two distances
AdjustmentOf(fn, g_guess, t) ==
    IF fn = "parent_aid" THEN Elems(parents_of(g_guess, t))
    ELSE DirectedAncestorsOf(g_guess, t)

ClaimedEffectsOf(fn, g_guess, t) ==
    IF fn = "parent_aid" THEN Nodes(g_guess.n_nodes) \ (AdjustmentOf(fn, g_guess, t) \cup {t})
    ELSE possible_descendants(g_guess, <<t>>)

\* the ordered pairs <<t, y>> graded a mistake by the common rule
GradedMistakes(fn, g_truth, g_guess) ==
    {p \in Nodes(g_truth.n_nodes) \X Nodes(g_truth.n_nodes) :
        /\ p[1] # p[2]
        /\ LET t == p[1]
               y == p[2]
               claimed == y \in ClaimedEffectsOf(fn, g_guess, t)
               nam_guess == y \in get_nam(g_guess, <<t>>)
               nam_truth == y \in get_nam(g_truth, <<t>>)
           IN  \/ ~claimed /\ y \in possible_descendants(g_truth, <<t>>)
               \/ claimed /\ (nam_guess # nam_truth)
               \/ /\ claimed /\ ~nam_guess /\ ~nam_truth
                  /\ y \in get_invalidly_un_blocked(g_truth, <<t>>,
                                                    AdjustmentOf(fn, g_guess, t), None)}

\* C22: the count parent_aid and ancestor_aid return is the number of ordered
\* pairs (t, y), t # y, graded a mistake by the common rule: y is not a claimed
\* effect and is a possible descendant of t in truth; or y is a claimed effect
\* and exactly one of NAM(guess, {t}) and NAM(truth, {t}) contains y; or y is a
\* claimed effect, in neither NAM set, and not validly adjusted for by Z_t in truth
C22_AidCountsGradedPairs ==
    (dist # Idle /\ dist.fn \in {"parent_aid", "ancestor_aid"} /\ dist.kind = "Returns") =>
        dist.value[2] = Cardinality(GradedMistakes(dist.fn, truth, guess))

\* ancestor_aid returned with a pair graded by each of the three rules
C22_Witness ==
    /\ dist # Idle /\ dist.fn = "ancestor_aid" /\ dist.kind = "Returns"
    /\ truth.n_nodes = MaxNodes
    /\ \E p \in GradedMistakes("ancestor_aid", truth, guess) :
          p[2] \notin ClaimedEffectsOf("ancestor_aid", guess, p[1])
    /\ \E p \in GradedMistakes("ancestor_aid", truth, guess) :
          /\ p[2] \in ClaimedEffectsOf("ancestor_aid", guess, p[1])
          /\ (p[2] \in get_nam(guess, <<p[1]>>)) # (p[2] \in get_nam(truth, <<p[1]>>))
    /\ \E p \in GradedMistakes("ancestor_aid", truth, guess) :
          /\ p[2] \in ClaimedEffectsOf("ancestor_aid", guess, p[1])
          /\ p[2] \notin get_nam(guess, <<p[1]>>) /\ p[2] \notin get_nam(truth, <<p[1]>>)

-----------------------------------------------------------------------------
\* the ordered pairs <<u, v>> joined by an undirected edge
UndirectedPairsOf(g) ==
    {e \in Nodes(g.n_nodes) \X Nodes(g.n_nodes) : e[1] \in Elems(adjacent_undirected_of(g, e[2]))}

\* the nodes reached from S by a walk of at most k steps along the pairs of E
RECURSIVE ReachedWithin(_, _, _)
ReachedWithin(S, E, k) ==
    IF k = 0 THEN S
    ELSE ReachedWithin(S \cup {e[2] : e \in {f \in E : f[1] \in S}}, E, k - 1)

\* the end nodes outside T of the possibly directed walks that leave T by an
\* undirected edge and never come back to T
EndsOfUndirectedStarts(g, T) ==
    LET outside == {e \in DirectedEdgesOf(g) \cup UndirectedPairsOf(g) :
                       e[1] \notin T /\ e[2] \notin T}
        first == {e[2] : e \in {f \in UndirectedPairsOf(g) : f[1] \in T /\ f[2] \notin T}}
    IN  ReachedWithin(first, outside, g.n_nodes)

\* C23: for a non-empty T, get_d_pd_nam returns as D the set T with every node
\* reached from T along directed edges, as PD the set T with every node
\* reached from T along directed and undirected edges, and as NAM exactly the
\* nodes outside T at the end of a possibly directed walk that leaves T by an
\* undirected edge and never comes back to T
C23_DPdNamAreWalkSets ==
    (sets # Idle /\ sets.fn = "get_d_pd_nam" /\ treat # << >>) =>
        /\ sets.value[1] = ReachedWithin(Elems(treat), DirectedEdgesOf(graph), graph.n_nodes)
        /\ sets.value[2] = ReachedWithin(Elems(treat),
                                         DirectedEdgesOf(graph) \cup UndirectedPairsOf(graph),
                                         graph.n_nodes)
        /\ sets.value[3] = EndsOfUndirectedStarts(graph, Elems(treat))

\* get_d_pd_nam returned a possible descendant that is neither a descendant
\* nor not amenable: it is reached by an undirected edge that follows a
\* directed one
C23_Witness ==
    /\ sets # Idle /\ sets.fn = "get_d_pd_nam" /\ Len(treat) = 1
    /\ graph.n_nodes = MaxNodes
    /\ sets.value[1] # Elems(treat)
    /\ sets.value[2] \ (sets.value[1] \cup sets.value[3]) # {}

-----------------------------------------------------------------------------
\* C24: the conditioned next-step helper never returns a node of T; a move to
\* a parent of v after arriving at v by an incoming edge is flagged blocked
\* iff v is not in Z; every other returned move, to a parent, an undirected
\* neighbour or a child of v, is flagged blocked iff v is in Z; and after
\* arriving by an undirected edge no move to a parent is returned
C24_ConditionedStepsFlags ==
    (sets # Idle /\ sets.fn = "get_next_steps_conditioned") =>
        \A k \in 1 .. Len(sets.value) :
            LET move_on_by == sets.value[k][1]
                w == sets.value[k][2]
                blocked == sets.value[k][3]
            IN  /\ w \notin Elems(treat)
                /\ move_on_by = "Outgoing" => w \in Elems(parents_of(graph, sets.v))
                /\ move_on_by = "Undirected" => w \in Elems(adjacent_undirected_of(graph, sets.v))
                /\ move_on_by = "Incoming" => w \in Elems(children_of(graph, sets.v))
                /\ IF move_on_by = "Outgoing" /\ sets.arrived_by = "Incoming"
                   THEN blocked <=> sets.v \notin adjust
                   ELSE blocked <=> sets.v \in adjust
                /\ sets.arrived_by = "Undirected" => move_on_by # "Outgoing"

\* at a collider outside Z with one parent in T, the move to the other parent
\* was returned and flagged blocked
C24_Witness ==
    /\ sets # Idle /\ sets.fn = "get_next_steps_conditioned"
    /\ sets.arrived_by = "Incoming" /\ sets.v \notin adjust
    /\ Elems(parents_of(graph, sets.v)) \cap Elems(treat) # {}
    /\ \E k \in 1 .. Len(sets.value) :
          sets.value[k][1] = "Outgoing" /\ sets.value[k][3] = TRUE

-----------------------------------------------------------------------------
(* The engines run iteration by iteration of their while loop.  sets holds  *)
(* the locals of the running engine and, for each item popped from the     *)
(* stack, whether it was popped once or more than once.                    *)

Engines == {"get_d_pd_nam", "get_pd_nam", "get_nam", "get_pd_nam_nva", "get_nam_nva",
            "get_invalidly_un_blocked"}

\* the locals before the while loop
EngineStart(fn, t, z, y_of_interest) ==
    CASE fn = "get_d_pd_nam" -> DPdNamStart(t)
      [] fn = "get_pd_nam" -> PdNamStart(t)
      [] fn = "get_nam" -> NamStart(t)
      [] fn = "get_pd_nam_nva" -> PdNamNvaStart(t, z)
      [] fn = "get_nam_nva" -> NamNvaStart(t, z)
      [] fn = "get_invalidly_un_blocked" -> IvbStart(t, z, y_of_interest)

\* one iteration of the while loop
EngineStep(fn, g, t, z, st) ==
    CASE fn = "get_d_pd_nam" -> DPdNamStep(g, t, st)
      [] fn = "get_pd_nam" -> PdNamStep(g, t, st)
      [] fn = "get_nam" -> NamStep(g, t, st)
      [] fn = "get_pd_nam_nva" -> PdNamNvaStep(g, t, z, st)
      [] fn = "get_nam_nva" -> NamNvaStep(g, t, z, st)
      [] fn = "get_invalidly_un_blocked" -> IvbStep(g, t, z, st)

\* to_visit_stack.pop() is None, or the early return of get_invalidly_un_blocked
EngineDone(fn, st) ==
    \/ st.to_visit_stack = << >>
    \/ fn = "get_invalidly_un_blocked" /\ st.returned

\* the returned sets
EngineResult(fn, st) ==
    CASE fn = "get_d_pd_nam" -> <<st.desc, st.poss_desc, st.not_amenable>>
      [] fn = "get_pd_nam" -> <<st.poss_de, st.not_amenable>>
      [] fn = "get_nam" -> st.not_amenable
      [] fn = "get_pd_nam_nva" -> <<st.poss_de, st.not_amenable, st.not_vas>>
      [] fn = "get_nam_nva" -> <<st.not_amenable, st.not_vas>>
      [] fn = "get_invalidly_un_blocked" -> st.ivb

\* the treatment slice holds any set of nodes, in ascending order
InitWalk ==
    /\ pc = "walk"
    /\ graph \in LoadableUpTo(MaxNodes)
    /\ treat \in {SetToAscending(T) : T \in SUBSET Nodes(graph.n_nodes)}
    /\ adjust \in SUBSET Nodes(graph.n_nodes)
    /\ sets = Idle
    /\ NoLoad
    /\ truth = Idle /\ guess = Idle /\ dist = Idle
    /\ list1 = << >> /\ list2 = << >> /\ listOut = Idle

\* the call of an engine up to its while loop
StartWalk ==
    /\ pc = "walk" /\ sets = Idle
    /\ \E fn \in Engines :
       \E y_of_interest \in IF fn = "get_invalidly_un_blocked"
                             THEN {None, Some({}), Some(Nodes(graph.n_nodes))}
                             ELSE {None} :
           sets' = [fn |-> fn, kind |-> "Running",
                    st |-> EngineStart(fn, treat, adjust, y_of_interest),
                    once |-> {}, again |-> {}]
    /\ UNCHANGED <<pc, loadVars, distVars, graph, treat, adjust, listVars>>

\* one item is popped and expanded
StepWalk ==
    /\ pc = "walk" /\ sets # Idle /\ sets.kind = "Running"
    /\ ~EngineDone(sets.fn, sets.st)
    /\ LET top == sets.st.to_visit_stack[Len(sets.st.to_visit_stack)]
       IN  sets' = [sets EXCEPT
                       !.st = EngineStep(sets.fn, graph, treat, adjust, sets.st),
                       !.once = sets.once \cup {top},
                       !.again = IF top \in sets.once THEN sets.again \cup {top}
                                 ELSE sets.again]
    /\ UNCHANGED <<pc, loadVars, distVars, graph, treat, adjust, listVars>>

\* the loop is left and the sets are returned
ReturnWalk ==
    /\ pc = "walk" /\ sets # Idle /\ sets.kind = "Running"
    /\ EngineDone(sets.fn, sets.st)
    /\ sets' = [fn |-> sets.fn, kind |-> "Returned",
                value |-> EngineResult(sets.fn, sets.st),
                once |-> sets.once, again |-> sets.again]
    /\ UNCHANGED <<pc, loadVars, distVars, graph, treat, adjust, listVars>>

NextWalk == StartWalk \/ StepWalk \/ ReturnWalk

SpecWalk == InitWalk /\ [][NextWalk]_vars

\* a called engine is not suspended: it keeps running until it returns
SpecWalkFair == SpecWalk /\ WF_vars(NextWalk)

WalkStatusEngines == Engines \ {"get_nam"}

\* C25: in every run of a walk-status engine each (arrival edge, node, walk
\* status) triple is popped from the stack and expanded at most once
C25_EachTripleExpandedOnce ==
    (pc = "walk" /\ sets # Idle /\ sets.fn \in WalkStatusEngines) => sets.again = {}

\* C26: on every loaded graph, with every T and every Z, a called engine
\* terminates: its stack becomes empty, or get_invalidly_un_blocked returns
\* early, and it returns its sets
C26_EnginesTerminate ==
    (pc = "walk" /\ sets # Idle) ~> (sets # Idle /\ sets.kind = "Returned")

\* an engine returned on the graph whose undirected edges form a cycle, after
\* walking round it
C26_Witness ==
    /\ pc = "walk" /\ sets # Idle /\ sets.kind = "Returned"
    /\ sets.fn = "get_pd_nam_nva"
    /\ graph.n_nodes = MaxNodes /\ graph.n_undirected_edges = MaxNodes
    /\ Len(treat) = 1 /\ Cardinality(sets.once) > MaxNodes

-----------------------------------------------------------------------------
(* edgelist.rs: the adaptor alone.  list1 is what the inner iterator still *)
(* holds, list2 what next has pulled out of it, listOut what next yielded. *)

\* Edgelist::next: the for loop over the inner iterator, up to its first
\* return; pulled counts the items it took
RECURSIVE next(_, _, _)
next(iterator, prev_index, pulled) ==
    IF iterator = << >>
    THEN [kind |-> "None", previous_index |-> prev_index, pulled |-> pulled]
    ELSE LET val == Head(iterator)
         IN  IF val[3] = 0 THEN next(Tail(iterator), prev_index, pulled + 1)
             ELSE IF ~order_check(prev_index, <<val[1], val[2]>>)
                  THEN [kind |-> "Panic", previous_index |-> prev_index, pulled |-> pulled + 1]
             ELSE [kind |-> "Some", item |-> val,
                   previous_index |-> Some(<<val[1], val[2]>>), pulled |-> pulled + 1]

InitEdgelist ==
    /\ pc = "edgelist"
    /\ layout \in Layouts
    /\ size = MaxNodes
    /\ list1 \in UNION {[1 .. l -> Nodes(size) \X Nodes(size) \X (0 .. MaxValue)] :
                           l \in 0 .. MaxListLen}
    /\ list2 = << >> /\ listOut = << >>
    /\ previous_index = None
    /\ outcome = Running
    /\ fed = << >> /\ acc = NewAcc(size)
    /\ truth = Idle /\ guess = Idle /\ dist = Idle
    /\ graph = Idle /\ treat = << >> /\ adjust = {} /\ sets = Idle

\* one call of Edgelist::next
CallNext ==
    /\ pc = "edgelist" /\ outcome = Running
    /\ LET r == next(list1, previous_index, 0)
       IN  /\ list1' = SubSeq(list1, r.pulled + 1, Len(list1))
           /\ list2' = list2 \o SubSeq(list1, 1, r.pulled)
           /\ previous_index' = r.previous_index
           /\ listOut' = IF r.kind = "Some" THEN Append(listOut, r.item) ELSE listOut
           /\ outcome' = IF r.kind = "Some" THEN Running
                         ELSE IF r.kind = "Panic" THEN Panic("OutOfOrder")
                         ELSE [kind |-> "None"]
    /\ UNCHANGED <<pc, layout, size, fed, acc, distVars, reachVars>>

SpecEdgelist == InitEdgelist /\ [][CallNext]_vars

NonZero(stream) == SelectSeq(stream, LAMBDA tr : tr[3] # 0)

\* C27: the adaptor yields exactly the non-zero triples, in input order, one
\* for each call; it aborts at the first non-zero triple whose (outer, inner)
\* is not strictly later than that of the triple yielded before; zero triples
\* are dropped without an order check and leave the remembered index alone
C27_AdaptorYieldsNonZeroInOrder ==
    (pc = "edgelist") =>
        IF outcome.kind = "Panic"
        THEN /\ list2 # << >> /\ list2[Len(list2)][3] # 0
             /\ listOut = NonZero(SubSeq(list2, 1, Len(list2) - 1))
             /\ listOut # << >> /\ Ordered(listOut)
             /\ ~Ordered(<<listOut[Len(listOut)], list2[Len(list2)]>>)
        ELSE /\ listOut = NonZero(list2)
             /\ Ordered(listOut)
             /\ previous_index = IF listOut = << >> THEN None
                                 ELSE Some(<<listOut[Len(listOut)][1], listOut[Len(listOut)][2]>>)
             /\ outcome.kind = "None" => list1 = << >>
             /\ (outcome = Running /\ list2 # << >>) => list2[Len(list2)][3] # 0

\* two triples were yielded round a zero triple whose position is not later
\* than that of the first
C27_Witness ==
    /\ pc = "edgelist" /\ outcome = Running
    /\ Len(list2) = 3 /\ Len(listOut) = 2
    /\ list2[2][3] = 0 /\ ~Ordered(<<list2[1], list2[2]>>)

-----------------------------------------------------------------------------
\* the directed edges <<parent, child>> and the undirected edges {a, b} a
\* stored graph holds
StoredDirected(g) ==
    {e \in Nodes(g.n_nodes) \X Nodes(g.n_nodes) : e[2] \in Elems(children_of(g, e[1]))}

StoredUndirected(g) ==
    {{e[1], e[2]} : e \in {f \in Nodes(g.n_nodes) \X Nodes(g.n_nodes) :
                                 f[2] \in Elems(adjacent_undirected_of(g, f[1]))}}

DataModelInvariants(g) ==
    /\ Len(g.node_edge_ranges) = g.n_nodes + 1
    /\ g.node_edge_ranges[1] = 0
    /\ \A k \in 1 .. g.n_nodes : g.node_edge_ranges[k] <= g.node_edge_ranges[k + 1]
    /\ g.node_edge_ranges[g.n_nodes + 1] = 2 * g.n_directed_edges + 2 * g.n_undirected_edges
    /\ Len(g.neighbourhoods) = g.node_edge_ranges[g.n_nodes + 1]
    /\ \A v \in Nodes(g.n_nodes) :
          LET pa == parents_of(g, v)
              un == adjacent_undirected_of(g, v)
              ch == children_of(g, v)
          IN  /\ IsStrictlyAscending(pa)
              /\ IsStrictlyAscending(un)
              /\ IsStrictlyAscending(ch)
              /\ Elems(pa) \cap Elems(un) = {}
              /\ Elems(pa) \cap Elems(ch) = {}
              /\ Elems(un) \cap Elems(ch) = {}
              /\ v \notin Elems(pa) \cup Elems(un) \cup Elems(ch)
              /\ Elems(NeighbourhoodOf(g, v)) \subseteq Nodes(g.n_nodes)
              /\ NeighbourhoodOf(g, v) = pa \o un \o ch
              /\ InDegree(g, v) = Len(pa)
              /\ OutDegree(g, v) = Len(ch)
              /\ \A u \in Nodes(g.n_nodes) :
                    /\ u \in Elems(ch) <=> v \in Elems(parents_of(g, u))
                    /\ u \in Elems(un) <=> v \in Elems(adjacent_undirected_of(g, u))
    /\ g.n_directed_edges = Cardinality(StoredDirected(g))
    /\ g.n_undirected_edges = Cardinality(StoredUndirected(g))
    /\ (g.pdag_type = "DAG") <=> (g.n_undirected_edges = 0)
    /\ g.pdag_type \in {"DAG", "CPDAG"}

\* C28: every PDAG a load returns satisfies the data-model invariants: the
\* offsets are monotone from 0 to 2 * directed + 2 * undirected; at every
\* vertex the parents, undirected and children slices are strictly increasing,
\* pairwise disjoint and without the vertex itself; children and parents, and
\* undirected neighbours, mirror each other; the stored degrees are the slice
\* sizes; the stored edge counts are the numbers of distinct edges (those the
\* input codes); and the kind is DAG exactly when no edge is undirected
C28_LoadedPdagWellFormed ==
    (pc = "load" /\ outcome.kind = "Ok") =>
        /\ outcome.pdag.n_nodes = size
        /\ DataModelInvariants(outcome.pdag)
        /\ StoredDirected(outcome.pdag) = DirectedIn(layout, fed)
        /\ StoredUndirected(outcome.pdag) = UndirectedIn(fed)

\* a loaded graph with a directed edge and an undirected edge that the input
\* coded at both of its positions
C28_Witness ==
    /\ pc = "load" /\ outcome.kind = "Ok"
    /\ outcome.pdag.n_directed_edges >= 1
    /\ outcome.pdag.n_undirected_edges >= 1
    /\ Len(fed) > outcome.pdag.n_directed_edges + outcome.pdag.n_undirected_edges

-----------------------------------------------------------------------------
\* C29: the set get_invalidly_un_blocked returns for targets of interest Y',
\* early return or not, is a subset of the set it returns without them, and
\* holds a target y of Y' exactly when that set holds y
C29_RestrictedAgreesOnTargets ==
    (pc = "reach" /\ sets # Idle /\ sets.fn = "get_invalidly_un_blocked"
        /\ sets.y_of_interest # None) =>
        LET Agrees(restricted, unrestricted) ==
                /\ restricted \subseteq unrestricted
                /\ \A y \in sets.y_of_interest[1] :
                       y \in restricted <=> y \in unrestricted
        IN  Agrees(sets.value, get_invalidly_un_blocked(graph, treat, adjust, None))

\* a call with a target outside Z that returned early, with work left on its
\* stack and without a vertex the unrestricted call returns
C29_Witness ==
    /\ pc = "reach" /\ sets # Idle /\ sets.fn = "get_invalidly_un_blocked"
    /\ sets.y_of_interest # None
    /\ sets.y_of_interest[1] # {}
    /\ sets.y_of_interest[1] \cap adjust = {}
    /\ LET Early(st) == st.returned /\ st.to_visit_stack # << >> /\ st.ivb = sets.value
       IN  Early(IvbRun(graph, treat, adjust, IvbStart(treat, adjust, sets.y_of_interest)))
    /\ sets.value # get_invalidly_un_blocked(graph, treat, adjust, None)

-----------------------------------------------------------------------------
\* the engines called on their own and the distances, in one specification
SpecAid == (InitReach \/ InitDist) /\ [][NextReach \/ NextDist]_vars

\* the pairs <<t, y>> of ancestor_aid with y in Z_t, y a claimed effect, and
\* y amenable in guess or in truth
ForcedPairs(g_truth, g_guess) ==
    {p \in Nodes(g_truth.n_nodes) \X Nodes(g_truth.n_nodes) :
        /\ p[1] # p[2]
        /\ p[2] \in AdjustmentOf("ancestor_aid", g_guess, p[1])
        /\ p[2] \in ClaimedEffectsOf("ancestor_aid", g_guess, p[1])
        /\ \/ p[2] \notin get_nam(g_guess, <<p[1]>>)
           \/ p[2] \notin get_nam(g_truth, <<p[1]>>)}

\* C30: every vertex of Z is in the NVA set of get_pd_nam_nva and of
\* get_nam_nva and in the set of get_invalidly_un_blocked, reached from T or
\* not; and ancestor_aid grades every pair (t, y) with y in Z_t, y a claimed
\* effect and amenable, a mistake
C30_AdjustmentSetIsNotValidlyAdjusted ==
    /\ (pc = "reach" /\ sets # Idle /\ sets.fn = "get_pd_nam_nva") => adjust \subseteq sets.value[3]
    /\ (pc = "reach" /\ sets # Idle /\ sets.fn = "get_nam_nva") => adjust \subseteq sets.value[2]
    /\ (pc = "reach" /\ sets # Idle /\ sets.fn = "get_invalidly_un_blocked")
          => adjust \subseteq sets.value
    /\ (pc = "dist" /\ dist # Idle /\ dist.fn = "ancestor_aid" /\ dist.kind = "Returns") =>
          LET Graded(forced, mistakes) ==
                  /\ forced \subseteq mistakes
                  /\ dist.value[2] = Cardinality(mistakes)
                  /\ \A p \in forced :
                         p[2] \in get_nam_nva(truth, <<p[1]>>,
                                     gensearch(guess, AncestorsRuletable, <<p[1]>>, FALSE))[2]
          IN  Graded(ForcedPairs(truth, guess), GradedMistakes("ancestor_aid", truth, guess))

\* ancestor_aid returned on a guess with a pair (t, y), y an ancestor and an
\* amenable possible descendant of t, and a truth where y has no neighbour
C30_Witness ==
    /\ pc = "dist" /\ dist # Idle /\ dist.fn = "ancestor_aid" /\ dist.kind = "Returns"
    /\ \E p \in ForcedPairs(truth, guess) :
          /\ p[2] \notin get_nam(guess, <<p[1]>>)
          /\ NeighbourhoodOf(truth, p[2]) = << >>
    /\ dist.value[2] >= 1

====
